---- MODULE Spec2Model ----
(***************************************************************************)
(* A model of the trace pipeline of aura: the trace normalizer             *)
(* (RpcProvider.normalizeTrace), the call tree builder (TraceParser), the  *)
(* signature decoder (ABIService), the token metadata resolver            *)
(* (TokenService) and the protocol detector (DefiDetector).                *)
(*                                                                         *)
(* Each component has its own specification over the shared variables:     *)
(*   SpecNorm   the normalizer applied to a payload, then to its output    *)
(*   SpecParse  parseTrace followed by parseLogs                           *)
(*   SpecAbi    sequences of decodeFunctionCall / decodeEventLog           *)
(*   SpecToken  sequences of getTokenInfo and getCachedTokenInfo           *)
(*   SpecTokenRace getTokenInfo calls that overlap                         *)
(*   SpecDefi   analyzeTrace on a parsed trace                             *)
(*   SpecFormat formatParameterValue on one parameter                      *)
(*   SpecInspect one run of inspectCommand                                 *)
(***************************************************************************)
EXTENDS Integers, Sequences, FiniteSets, TLC

VARIABLES
  \* ---- RpcProvider.getTransactionTrace / normalizeTrace
  tracePayload,   \* what provider.send('debug_traceTransaction') returned
  normOut,        \* outcome of the first normalization
  normAgain,      \* outcome of normalizing the first outcome's value again
  normPc,         \* "fetched" | "normalized" | "renormalized"
  \* ---- ABIService
  signatureCache, \* selector -> ABIFunction
  eventCache,     \* topic hash -> ABIEvent
  abiCall,        \* the last decode call: its arguments and the registry's answer
  abiResult,      \* what that call returned (or threw)
  abiCalls,       \* number of decode calls made
  \* ---- TraceParser
  rawTrace,       \* the RawTrace handed to parseTrace
  receiptLogs,    \* the receipt's logs handed to parseLogs
  parsedTrace,    \* the ParsedTrace, once parseTrace returned
  parsePc,        \* "start" | "parsed" | "logged" | "failed"
  parseErr,       \* message of the error parseTrace threw
  \* ---- TokenService
  tokenCache,     \* lower-cased address -> TokenInfo
  tokenCalls,     \* the getTokenInfo calls made so far, in order of their start
  resolutions,    \* lower-cased address -> number of external resolutions started
  cachedLookup,   \* the last getCachedTokenInfo call: its argument and result
  \* ---- DefiDetector
  defiTrace,      \* the ParsedTrace handed to analyzeTrace
  defiService,    \* whether the detector was built with a token service
  defiAnalysis,   \* the DefiAnalysis the last analyzeTrace returned
  defiAnalyses,   \* number of analyzeTrace calls made
  defiVisits,     \* the calls the last analysis visited, in order, and what each pushed
  \* ---- TraceFormatter
  fmtInput,       \* the parameter to format: its value and its type
  fmtContract,    \* the contractAddress argument, Absent when not given
  fmtService,     \* whether the formatter has a token service
  fmtOutput,      \* what formatParameterValue returned
  \* ---- inspectCommand
  inspectOptions, \* the options of the run: json, verbose
  inspectPc,      \* the await the run is at, or "returned" | "exited"
  inspectEvents,  \* what the run wrote and which parser calls completed, in order
  inspectLogsLeft,\* logs parseLogs has still to decode; -1 without a receipt
  inspectExit     \* 1 after process.exit(1), else 0

normVars == <<tracePayload, normOut, normAgain, normPc>>
abiVars == <<signatureCache, eventCache, abiCall, abiResult, abiCalls>>
parseVars == <<rawTrace, receiptLogs, parsedTrace, parsePc, parseErr>>
tokenVars == <<tokenCache, tokenCalls, resolutions, cachedLookup>>
defiVars == <<defiTrace, defiService, defiAnalysis, defiAnalyses, defiVisits>>
fmtVars == <<fmtInput, fmtContract, fmtService, fmtOutput>>
inspectVars == <<inspectOptions, inspectPc, inspectEvents, inspectLogsLeft, inspectExit>>
vars == <<normVars, abiVars, parseVars, tokenVars, defiVars, fmtVars, inspectVars>>

(***************************************************************************)
(* JavaScript values.  A value is a record [k, v]: k is the kind, v the    *)
(* content.  Objects carry the fixed set of properties that normalizeTrace *)
(* reads; a property that is absent reads as undefined, as in JavaScript.  *)
(***************************************************************************)
Undef == [k |-> "undef", v |-> ""]
Null == [k |-> "null", v |-> ""]
Str(s) == [k |-> "str", v |-> s]
Arr(elems) == [k |-> "arr", v |-> elems]
Obj(type, from, to, result, calls, logs, gasUsed) ==
  [k |-> "obj",
   v |-> [type |-> type, from |-> from, to |-> to, result |-> result,
          calls |-> calls, logs |-> logs, gasUsed |-> gasUsed]]

\* JavaScript truthiness: undefined, null and '' are falsy; every array and
\* every object (the empty ones too) and every non-empty string is truthy.
Truthy(x) ==
  CASE x.k = "undef" -> FALSE
    [] x.k = "null" -> FALSE
    [] x.k = "str" -> x.v # ""
    [] OTHER -> TRUE

\* x.f for a truthy x: arrays and strings have none of the properties read here.
Get(x, f) == IF x.k = "obj" THEN x.v[f] ELSE Undef

\* a || b
OrElse(a, b) == IF Truthy(a) THEN a ELSE b

\* trace[0]?.gasUsed
FirstGasUsed(arr) ==
  IF Len(arr.v) = 0 THEN Undef
  ELSE IF arr.v[1].k \in {"undef", "null"} THEN Undef
  ELSE Get(arr.v[1], "gasUsed")

\* The RawTrace literal {calls, gasUsed, logs} the normalizer returns.
RawTraceOf(calls, gasUsed, logs) ==
  Obj(Undef, Undef, Undef, Undef, calls, logs, gasUsed)

NormOk(val) == [ok |-> TRUE, val |-> val, err |-> ""]
NormErr(code) == [ok |-> FALSE, val |-> Undef, err |-> code]
NoOutcome == [ok |-> FALSE, val |-> Undef, err |-> "not-run"]

\* The calls/logs branch with an added emptiness test on calls.
NormalizeCallsOrLogsStrict(trace) ==
  IF (Truthy(Get(trace, "calls")) /\ Get(trace, "calls").k = "arr"
        /\ Len(Get(trace, "calls").v) > 0)
     \/ Truthy(Get(trace, "logs"))
  THEN NormOk(RawTraceOf(OrElse(Get(trace, "calls"), Arr(<<>>)),
                         OrElse(Get(trace, "gasUsed"), Str("0")),
                         Get(trace, "logs")))
  ELSE NormErr("INVALID_TRACE_FORMAT")

\* normalizeTrace, the last recognized shape and the failure after it.
NormalizeCallsOrLogs(trace) ==
  IF Truthy(Get(trace, "calls")) \/ Truthy(Get(trace, "logs"))
  THEN NormOk(RawTraceOf(OrElse(Get(trace, "calls"), Arr(<<>>)),
                         OrElse(Get(trace, "gasUsed"), Str("0")),
                         Get(trace, "logs")))
  ELSE NormErr("INVALID_TRACE_FORMAT")

\* The failure replaced by an empty default trace.
NormalizeTraceDefaulting(trace) ==
  IF Truthy(Get(trace, "type")) /\ Truthy(Get(trace, "from")) /\ Truthy(Get(trace, "to"))
  THEN NormOk(RawTraceOf(Arr(<<trace>>), OrElse(Get(trace, "gasUsed"), Str("0")), Undef))
  ELSE IF Truthy(Get(trace, "result"))
  THEN NormOk(RawTraceOf(Arr(<<Get(trace, "result")>>),
                         OrElse(Get(Get(trace, "result"), "gasUsed"), Str("0")), Undef))
  ELSE IF trace.k = "arr"
  THEN NormOk(RawTraceOf(trace, OrElse(FirstGasUsed(trace), Str("0")), Undef))
  ELSE NormOk(RawTraceOf(OrElse(Get(trace, "calls"), Arr(<<>>)),
                         OrElse(Get(trace, "gasUsed"), Str("0")),
                         Get(trace, "logs")))

\* normalizeTrace: the four shapes, tried in the order of the code.
NormalizeTrace(trace) ==
  IF Truthy(Get(trace, "type")) /\ Truthy(Get(trace, "from")) /\ Truthy(Get(trace, "to"))
  THEN NormOk(RawTraceOf(Arr(<<trace>>), OrElse(Get(trace, "gasUsed"), Str("0")), Undef))
  ELSE IF Truthy(Get(trace, "result"))
  THEN NormOk(RawTraceOf(Arr(<<Get(trace, "result")>>),
                         OrElse(Get(Get(trace, "result"), "gasUsed"), Str("0")), Undef))
  ELSE IF trace.k = "arr"
  THEN NormOk(RawTraceOf(trace, OrElse(FirstGasUsed(trace), Str("0")), Undef))
  ELSE NormalizeCallsOrLogs(trace)

(***************************************************************************)
(* The payloads the provider may answer with.                              *)
(***************************************************************************)
MaxWrap == 2    \* nesting depth of {result: ...} wrappers

LeafCall == Obj(Str("CALL"), Str("0xaa"), Str("0xbb"), Undef, Undef, Undef, Str("0x5208"))
LeafCallNoGas == Obj(Str("STATICCALL"), Str("0xbb"), Str("0xcc"), Undef, Undef, Undef, Undef)

\* (type, from, to) of an object: a full call, a creation without a target,
\* a call whose target is the empty string, and no call fields at all.
CallFieldChoices ==
  { <<Str("CALL"), Str("0xaa"), Str("0xbb")>>,
    <<Str("CREATE"), Str("0xaa"), Undef>>,
    <<Str("CALL"), Str("0xaa"), Str("")>>,
    <<Undef, Undef, Undef>> }
CallsChoices == {Undef, Arr(<<>>), Arr(<<LeafCall>>)}
LogsChoices == {Undef, Arr(<<Str("log0")>>)}
GasChoices == {Undef, Str(""), Str("0x5208")}

PlainObjects ==
  { Obj(c[1], c[2], c[3], Undef, calls, logs, gas) :
      c \in CallFieldChoices, calls \in CallsChoices,
      logs \in LogsChoices, gas \in GasChoices }

Arrays ==
  { Arr(<<>>), Arr(<<LeafCall>>), Arr(<<LeafCallNoGas, LeafCall>>), Arr(<<Null>>) }

Scalars == { Str("0x"), Str("") , Null }

\* {result: r, ...}: a wrapper with nothing else, one that is a call itself,
\* and one with calls and gas of its own.
Wrappers(results) ==
  UNION { { Obj(Undef, Undef, Undef, r, Undef, Undef, Undef),
            Obj(Str("CALL"), Str("0xaa"), Str("0xbb"), r, Undef, Undef, Str("0x5208")),
            Obj(Undef, Undef, Undef, r, Arr(<<LeafCall>>), Undef, Str("0x5208")) } :
          r \in results }

RECURSIVE PayloadsUpTo(_)
PayloadsUpTo(d) ==
  IF d = 0 THEN PlainObjects \cup Arrays \cup Scalars
  ELSE PayloadsUpTo(d - 1) \cup Wrappers(PayloadsUpTo(d - 1))

Payloads == PayloadsUpTo(MaxWrap)

(***************************************************************************)
(* SpecNorm: one answer of the provider, normalized, then normalized again *)
(***************************************************************************)
\* getTransactionTrace after the RPC answered: the guard on a missing trace,
\* then normalizeTrace; an AuraError is rethrown unchanged.
GetTransactionTrace ==
  /\ normPc = "fetched"
  /\ normOut' = IF ~Truthy(tracePayload) THEN NormErr("NO_TRACE_DATA")
                ELSE NormalizeTrace(tracePayload)
  /\ normPc' = "normalized"
  /\ UNCHANGED <<tracePayload, normAgain>>

\* The normalizer applied to its own output.
Renormalize ==
  /\ normPc = "normalized"
  /\ normOut.ok
  /\ normAgain' = NormalizeTrace(normOut.val)
  /\ normPc' = "renormalized"
  /\ UNCHANGED <<tracePayload, normOut>>


(***************************************************************************)
(* Hex data.  A hex string '0x..' is modelled as its sequence of bytes;     *)
(* its length as a string is 2 + 2 * (number of bytes).                    *)
(***************************************************************************)
WordBytes == 32
SelectorHexLen == 10

Zeros(n) == [i \in 1..n |-> 0]
HexLen(bytes) == 2 + 2 * Len(bytes)
\* s.slice(0, n) of a hex string, n even and at least 2
HexPrefix(bytes, n) ==
  SubSeq(bytes, 1, IF (n - 2) \div 2 < Len(bytes) THEN (n - 2) \div 2 ELSE Len(bytes))
\* '0x' + s.slice(n)
HexDrop(bytes, n) == SubSeq(bytes, (n - 2) \div 2 + 1, Len(bytes))

AddrWord == Zeros(12) \o [i \in 1..20 |-> 17]
BigWord == [i \in 1..32 |-> 255]
NumWord(n) == Zeros(31) \o <<n>>

\* The value of a 32-byte big-endian word; anything of 2^24 or more is
\* reported as 2^24, which is beyond every buffer of the model.
WordValue(w) ==
  IF \E i \in 1..29 : w[i] # 0 THEN 16777216
  ELSE 65536 * w[30] + 256 * w[31] + w[32]

SelTransfer == <<169, 5, 156, 187>>
SelApprove == <<9, 94, 167, 179>>
SelTransferFrom == <<35, 184, 114, 221>>
SelBalanceOf == <<112, 160, 130, 49>>
SelUnknown == <<222, 173, 190, 239>>
SelOther == <<0, 0, 0, 0>>

TopicTransfer ==
  <<221, 242, 82, 173, 27, 226, 200, 155, 105, 194, 176, 104, 252, 55, 141, 170,
    149, 43, 167, 241, 99, 196, 161, 22, 40, 245, 90, 77, 245, 35, 179, 239>>
TopicApproval ==
  <<140, 91, 225, 229, 235, 236, 125, 91, 209, 79, 113, 66, 125, 30, 132, 243,
    221, 3, 20, 192, 247, 178, 41, 30, 91, 32, 10, 200, 199, 195, 185, 37>>
TopicOther == [i \in 1..32 |-> 1]

(***************************************************************************)
(* ABI fragments and the part of ethers the decoder relies on.             *)
(***************************************************************************)
Param(name, type) == [name |-> name, type |-> type, indexed |-> FALSE]
IndexedParam(name, type) == [name |-> name, type |-> type, indexed |-> TRUE]
Fragment(name, type, inputs) == [name |-> name, type |-> type, inputs |-> inputs]
NoFragment == Fragment("", "none", <<>>)

TypesOf(inputs) == [i \in 1..Len(inputs) |-> inputs[i].type]

RECURSIVE JoinWith(_, _)
JoinWith(strs, sep) ==
  IF Len(strs) = 0 THEN ""
  ELSE IF Len(strs) = 1 THEN strs[1]
  ELSE strs[1] \o sep \o JoinWith(Tail(strs), sep)

\* fragment.format(): name(type,...,type)
FormatSignature(frag) == frag.name \o "(" \o JoinWith(TypesOf(frag.inputs), ",") \o ")"

\* The elementary types ethers accepts among those of the model.
ValidTypes == {"address", "uint256", "int128", "bool"}

\* keccak256 of the canonical signature, on the signatures of the model:
\* the first four bytes for a function, all 32 for an event.
SignatureHash(frag) ==
  LET sig == FormatSignature(frag) IN
  CASE sig = "transfer(address,uint256)" -> SelTransfer
    [] sig = "approve(address,uint256)" -> SelApprove
    [] sig = "transferFrom(address,address,uint256)" -> SelTransferFrom
    [] sig = "gasprice_bit_ether(int128)" -> SelTransferFrom
    [] sig = "balanceOf(address)" -> SelBalanceOf
    [] sig = "Transfer(address,address,uint256)" -> TopicTransfer
    [] sig = "Approval(address,address,uint256)" -> TopicApproval
    [] sig = "Ping()" -> TopicOther
    [] OTHER -> SelOther

\* new ethers.Interface([frag]) keeps a fragment only if it parses; an
\* invalid one is dropped with a warning.
InterfaceHas(frag) == \A i \in 1..Len(frag.inputs) : frag.inputs[i].type \in ValidTypes

\* AbiCoder.decode of static types: one word per type; a buffer that is too
\* short, or an address word wider than 20 bytes, throws.
AbiDecodeThrows(types, data) ==
  \/ Len(data) < WordBytes * Len(types)
  \/ \E i \in 1..Len(types) :
       /\ types[i] = "address"
       /\ \E j \in 1..12 : data[WordBytes * (i - 1) + j] # 0

AbiDecodeArgs(types, data) ==
  [i \in 1..Len(types) |-> SubSeq(data, WordBytes * (i - 1) + 1, WordBytes * i)]

\* iface.parseTransaction({data}): "null" when no fragment has the data's
\* selector, "throw" when the arguments do not decode, else the arguments.
ParseTransaction(frag, input) ==
  IF ~InterfaceHas(frag) \/ SignatureHash(frag) # HexPrefix(input, SelectorHexLen)
  THEN [kind |-> "null", args |-> <<>>]
  ELSE IF AbiDecodeThrows(TypesOf(frag.inputs), HexDrop(input, SelectorHexLen))
  THEN [kind |-> "throw", args |-> <<>>]
  ELSE [kind |-> "ok",
        args |-> AbiDecodeArgs(TypesOf(frag.inputs), HexDrop(input, SelectorHexLen))]

\* iface.parseLog({topics, data}): indexed parameters are decoded from
\* topics[1..], the others from data.
SelectParams(inputs, indexed) == SelectSeq(inputs, LAMBDA p : p.indexed = indexed)

RECURSIVE Flatten(_)
Flatten(seqs) == IF Len(seqs) = 0 THEN <<>> ELSE seqs[1] \o Flatten(Tail(seqs))

ParseLog(frag, topics, data) ==
  IF ~InterfaceHas(frag) \/ SignatureHash(frag) # topics[1]
  THEN [kind |-> "null", args |-> <<>>]
  ELSE IF \/ AbiDecodeThrows(TypesOf(SelectParams(frag.inputs, TRUE)), Flatten(Tail(topics)))
          \/ AbiDecodeThrows(TypesOf(SelectParams(frag.inputs, FALSE)), data)
  THEN [kind |-> "throw", args |-> <<>>]
  ELSE [kind |-> "ok",
        args |-> LET ix == AbiDecodeArgs(TypesOf(SelectParams(frag.inputs, TRUE)),
                                         Flatten(Tail(topics)))
                     nx == AbiDecodeArgs(TypesOf(SelectParams(frag.inputs, FALSE)), data)
                     \* position of parameter i among those with its indexed flag
                     Rank(i) == Cardinality({j \in 1..i : frag.inputs[j].indexed
                                                            = frag.inputs[i].indexed})
                 IN [i \in 1..Len(frag.inputs) |->
                       IF frag.inputs[i].indexed THEN ix[Rank(i)] ELSE nx[Rank(i)]]]

(***************************************************************************)
(* ABIService                                                              *)
(***************************************************************************)
\* loadCommonABIs
SeededEventCache ==
  (TopicTransfer :> Fragment("Transfer", "event",
                      <<IndexedParam("from", "address"), IndexedParam("to", "address"),
                        Param("value", "uint256")>>))
  @@ (TopicApproval :> Fragment("Approval", "event",
                      <<IndexedParam("owner", "address"), IndexedParam("spender", "address"),
                        Param("value", "uint256")>>))

SeededSignatureCache ==
  (SelTransfer :> Fragment("transfer", "function",
                      <<Param("to", "address"), Param("amount", "uint256")>>))
  @@ (SelApprove :> Fragment("approve", "function",
                      <<Param("spender", "address"), Param("amount", "uint256")>>))

(***************************************************************************)
(* Text signatures of the registry are sequences of tokens: a word is a    *)
(* maximal run of \w characters, every other character a token of its own. *)
(***************************************************************************)
Punctuation == {"(", ")", ",", " ", "[]"}
IsWord(tok) == tok \notin Punctuation

\* The words of the model that contain 'watch_tg_' or '_faebe36'.
SpamWords == {"watch_tg_invmru_2f69f1b", "join_tg_invmru_haha_faebe36"}

\* signature.includes('watch_tg_') || signature.includes('_faebe36')
IncludesSpam(sig) == \E i \in 1..Len(sig) : sig[i] \in SpamWords

RECURSIVE Concat(_)
Concat(toks) == IF Len(toks) = 0 THEN "" ELSE toks[1] \o Concat(Tail(toks))

\* params.split(',')
RECURSIVE SplitComma(_)
SplitComma(toks) ==
  IF \A i \in 1..Len(toks) : toks[i] # ","
  THEN <<toks>>
  ELSE LET c == CHOOSE i \in 1..Len(toks) :
                  toks[i] = "," /\ \A j \in 1..(i - 1) : toks[j] # ","
       IN <<SubSeq(toks, 1, c - 1)>> \o SplitComma(SubSeq(toks, c + 1, Len(toks)))

\* param.trim()
RECURSIVE Trim(_)
Trim(toks) ==
  IF Len(toks) = 0 THEN toks
  ELSE IF toks[1] = " " THEN Trim(Tail(toks))
  ELSE IF toks[Len(toks)] = " " THEN Trim(SubSeq(toks, 1, Len(toks) - 1))
  ELSE toks

\* One element of params.split(',').map(...), for type 'function'; index is
\* the 0-based position.
ParseParam(param, index) ==
  LET trimmed == Trim(param)
      spaces == {i \in 1..Len(trimmed) : trimmed[i] = " "}
  IN IF spaces # {}
     THEN LET sp == CHOOSE i \in spaces : \A j \in spaces : j <= i
          IN [name |-> Concat(SubSeq(trimmed, sp + 1, Len(trimmed))),
              type |-> Concat(SubSeq(trimmed, 1, sp - 1)),
              indexed |-> FALSE]
     ELSE [name |-> "param" \o ToString(index), type |-> Concat(trimmed),
           indexed |-> FALSE]

\* parseSignatureToABI(signature, 'function'): the leftmost match of
\* /(\w+)\((.*)\)/, or null.
ParseSignatureToABI(sig) ==
  LET closes == {j \in 1..Len(sig) : sig[j] = ")"}
      starts == {i \in 1..(Len(sig) - 1) :
                   /\ IsWord(sig[i]) /\ sig[i + 1] = "("
                   /\ \E j \in closes : j > i + 1}
  IN IF starts = {} THEN NoFragment
     ELSE LET s == CHOOSE i \in starts : \A j \in starts : i <= j
              e == CHOOSE j \in closes : \A l \in closes : l <= j
              params == SubSeq(sig, s + 2, e - 1)
              parts == SplitComma(params)
          IN Fragment(sig[s], "function",
                      IF Len(params) = 0 THEN <<>>
                      ELSE [i \in 1..Len(parts) |-> ParseParam(parts[i], i - 1)])

\* Every fragment taken for valid.
IsValidABILenient(abi) == TRUE

\* isValidABI for a function fragment built by parseSignatureToABI (its
\* parameters never carry an 'indexed' property).
IsValidABI(abi) ==
  /\ abi.name # "" /\ abi.type # ""
  /\ abi.name \notin SpamWords
  /\ \A i \in 1..Len(abi.inputs) : abi.inputs[i].type # ""

(***************************************************************************)
(* The registry's answer to one query:                                     *)
(*   kind "netfail"  fetch rejected, or the body is not JSON               *)
(*   kind "json"     data; hasResults says whether data.results is there;  *)
(*                   a result has a text_signature or lacks one            *)
(***************************************************************************)
Candidate(sig) == [hasText |-> TRUE, text |-> sig]
CandidateWithoutText == [hasText |-> FALSE, text |-> <<>>]
NetFail == [kind |-> "netfail", hasResults |-> FALSE, results |-> <<>>]
JsonWithoutResults == [kind |-> "json", hasResults |-> FALSE, results |-> <<>>]
JsonResults(rs) == [kind |-> "json", hasResults |-> TRUE, results |-> rs]

\* The for loop of fetchFunctionSignature from candidate i on: the first
\* candidate that is not spam and parses to a valid fragment, or NoFragment.
\* A result without text_signature makes signature.includes throw, which
\* the surrounding try turns into null.
RECURSIVE FirstUsableCandidate(_, _)
FirstUsableCandidate(results, i) ==
  IF i > Len(results) THEN NoFragment
  ELSE IF ~results[i].hasText THEN NoFragment
  ELSE IF IncludesSpam(results[i].text) THEN FirstUsableCandidate(results, i + 1)
  ELSE LET abiFunc == ParseSignatureToABI(results[i].text)
       IN IF abiFunc # NoFragment /\ IsValidABI(abiFunc) THEN abiFunc
          ELSE FirstUsableCandidate(results, i + 1)

\* fetchFunctionSignature: [fn, cache]
FetchFunctionSignature(cache, selector, response) ==
  IF response.kind = "netfail" \/ ~response.hasResults \/ Len(response.results) = 0
  THEN [fn |-> NoFragment, cache |-> cache]
  ELSE LET found == FirstUsableCandidate(response.results, 1)
       IN IF found = NoFragment THEN [fn |-> NoFragment, cache |-> cache]
          ELSE [fn |-> found,
                cache |-> [s \in DOMAIN cache \cup {selector} |->
                             IF s = selector THEN found ELSE cache[s]]]

NoDecode == [kind |-> "none", name |-> "", signature |-> "", inputs |-> <<>>]
DecodeThrew == [kind |-> "throw", name |-> "", signature |-> "", inputs |-> <<>>]

\* decoded.args.map(...) / formatValue: one entry per decoded argument.
DecodedInputs(frag, args) ==
  [i \in 1..Len(args) |->
     [name |-> IF i <= Len(frag.inputs) /\ frag.inputs[i].name # ""
               THEN frag.inputs[i].name ELSE "param" \o ToString(i - 1),
      type |-> IF i <= Len(frag.inputs) /\ frag.inputs[i].type # ""
               THEN frag.inputs[i].type ELSE "unknown",
      value |-> args[i],
      indexed |-> i <= Len(frag.inputs) /\ frag.inputs[i].indexed]]

\* The try block of decodeFunctionCall with its catch removed.
DecodeWithFunctionUncaught(abiFunction, input) ==
  LET decoded == ParseTransaction(abiFunction, input)
  IN IF decoded.kind = "null" THEN NoDecode
     ELSE IF decoded.kind = "throw" THEN DecodeThrew
     ELSE [kind |-> "decoded", name |-> abiFunction.name,
           signature |-> FormatSignature(abiFunction),
           inputs |-> DecodedInputs(abiFunction, decoded.args)]

\* The try/catch of decodeFunctionCall: whatever ethers throws becomes null.
DecodeWithFunction(abiFunction, input) ==
  LET decoded == ParseTransaction(abiFunction, input)
  IN IF decoded.kind \in {"null", "throw"} THEN NoDecode
     ELSE [kind |-> "decoded", name |-> abiFunction.name,
           signature |-> FormatSignature(abiFunction),
           inputs |-> DecodedInputs(abiFunction, decoded.args)]

\* decodeFunctionCall(to, input): [res, cache, queried]; queried says
\* whether the registry was asked.
DecodeFunctionCall(cache, response, to, input) ==
  IF HexLen(input) < SelectorHexLen
  THEN [res |-> NoDecode, cache |-> cache, queried |-> FALSE]
  ELSE LET selector == HexPrefix(input, SelectorHexLen)
           hit == selector \in DOMAIN cache
           fetched == FetchFunctionSignature(cache, selector, response)
           abiFunction == IF hit THEN cache[selector] ELSE fetched.fn
           cacheAfter == IF hit THEN cache ELSE fetched.cache
       IN [res |-> IF abiFunction = NoFragment THEN NoDecode
                   ELSE DecodeWithFunction(abiFunction, input),
           cache |-> cacheAfter,
           queried |-> ~hit]

\* An event registry that knows the schema of one topic hash.
FetchEventSignatureKnown(topicHash) ==
  IF topicHash = TopicOther THEN Fragment("Ping", "event", <<>>) ELSE NoFragment

\* fetchEventSignature: no registry for events.
FetchEventSignature(topicHash) == NoFragment

\* decodeEventLog(address, topics, data)
DecodeEventLog(cache, address, topics, data) ==
  IF Len(topics) = 0 THEN NoDecode
  ELSE LET abiEvent == IF topics[1] \in DOMAIN cache THEN cache[topics[1]]
                       ELSE FetchEventSignature(topics[1])
       IN IF abiEvent = NoFragment THEN NoDecode
          ELSE LET decoded == ParseLog(abiEvent, topics, data)
               IN IF decoded.kind \in {"null", "throw"} THEN NoDecode
                  ELSE [kind |-> "decoded", name |-> abiEvent.name,
                        signature |-> FormatSignature(abiEvent),
                        inputs |-> DecodedInputs(abiEvent, decoded.args)]

(***************************************************************************)
(* Inputs of the decoder: calldata, registry answers, logs.                *)
(***************************************************************************)
MaxCandidates == 2   \* results in one registry answer
MaxAbiCalls == 2     \* decode calls on one ABIService

CallInputs ==
  { <<169, 5>>,                                         \* shorter than a selector
    SelTransfer \o AddrWord \o NumWord(5),              \* transfer, well formed
    SelTransfer \o BigWord \o NumWord(5),               \* address wider than 20 bytes
    SelTransfer \o AddrWord,                            \* truncated arguments
    SelTransferFrom \o AddrWord \o AddrWord \o NumWord(7),
    SelTransferFrom \o NumWord(1),
    SelUnknown }

SigTransferFrom ==
  <<"transferFrom", "(", "address", ",", "address", ",", "uint256", ")">>
SigTransferFromNamed ==
  <<"transferFrom", "(", "address", " ", "from", ",", " ", "address", " ", "to", ",",
    " ", "uint256", " ", "value", ")">>
SigGaspriceBitEther == <<"gasprice_bit_ether", "(", "int128", ")">>
SigSpam == <<"watch_tg_invmru_2f69f1b", "(", "address", ",", "address", ")">>
SigNoParens == <<"garbage">>
SigTuple == <<"f", "(", "(", "uint256", ",", "address", ")", ",", "bool", ")">>
SigEmptyParam == <<"f", "(", "address", ",", ")">>

Candidates ==
  { Candidate(SigTransferFrom), Candidate(SigTransferFromNamed),
    Candidate(SigGaspriceBitEther), Candidate(SigSpam),
    Candidate(SigNoParens), Candidate(SigTuple), Candidate(SigEmptyParam),
    CandidateWithoutText }

RECURSIVE SeqsUpTo(_, _)
SeqsUpTo(S, n) ==
  IF n = 0 THEN {<<>>}
  ELSE LET shorter == SeqsUpTo(S, n - 1)
       IN shorter \cup {Append(q, x) : q \in {r \in shorter : Len(r) = n - 1}, x \in S}

\* Answers with one result of any kind, and longer answers over the results
\* that decide which candidate is taken.
OrderedCandidates ==
  { Candidate(SigTransferFrom), Candidate(SigGaspriceBitEther), Candidate(SigSpam),
    CandidateWithoutText }

Responses ==
  {NetFail, JsonWithoutResults}
  \cup {JsonResults(rs) : rs \in SeqsUpTo(Candidates, 1)}
  \cup {JsonResults(rs) : rs \in SeqsUpTo(OrderedCandidates, MaxCandidates)}

Log(address, topics, data) == [address |-> address, topics |-> topics, data |-> data]
LogTransfer == Log("0xt0", <<TopicTransfer, AddrWord, AddrWord>>, NumWord(9))
LogApproval == Log("0xt0", <<TopicApproval, AddrWord, AddrWord>>, BigWord)
LogUnknown == Log("0xt1", <<TopicOther>>, <<>>)
LogAnonymous == Log("0xt1", <<>>, NumWord(1))
LogTransfer721 == Log("0xt2", <<TopicTransfer, AddrWord, AddrWord, NumWord(1)>>, <<>>)
Logs == {LogTransfer, LogApproval, LogUnknown, LogAnonymous, LogTransfer721}

(***************************************************************************)
(* SpecAbi: one ABIService, decode calls one after another.                *)
(***************************************************************************)
NoAbiCall ==
  [op |-> "none", input |-> <<>>, log |-> LogAnonymous, response |-> NetFail,
   queried |-> FALSE]

\* await abiService.decodeFunctionCall(to, input), the registry answering
\* with response if it is asked.
DecodeFunctionCallStep ==
  /\ abiCalls < MaxAbiCalls
  /\ \E input \in CallInputs :
       \E response \in IF HexLen(input) >= SelectorHexLen
                           /\ HexPrefix(input, SelectorHexLen) \notin DOMAIN signatureCache
                        THEN Responses ELSE {NetFail} :
         \E r \in {DecodeFunctionCall(signatureCache, response, "0xbb", input)} :
            /\ signatureCache' = r.cache
            /\ abiResult' = r.res
            /\ abiCall' = [op |-> "function", input |-> input, log |-> LogAnonymous,
                           response |-> response, queried |-> r.queried]
  /\ abiCalls' = abiCalls + 1
  /\ UNCHANGED eventCache

\* await abiService.decodeEventLog(address, topics, data)
DecodeEventLogStep ==
  /\ abiCalls < MaxAbiCalls
  /\ \E log \in Logs :
       /\ abiResult' = DecodeEventLog(eventCache, log.address, log.topics, log.data)
       /\ abiCall' = [op |-> "event", input |-> <<>>, log |-> log,
                      response |-> NetFail, queried |-> FALSE]
  /\ abiCalls' = abiCalls + 1
  /\ UNCHANGED <<signatureCache, eventCache>>

(***************************************************************************)
(* TraceParser                                                             *)
(***************************************************************************)
Absent == "<absent>"              \* a string property that is not there
NoBytes == [has |-> FALSE, bytes |-> <<>>]
Bytes(b) == [has |-> TRUE, bytes |-> b]

\* A TraceCall.  calls is a sequence; a missing calls property and an empty
\* one take the same path through parseCall.
RawCall(type, to, input, output, error, calls) ==
  [type |-> type, from |-> "0xaa", to |-> to, value |-> "", gas |-> "0x7530",
   gasUsed |-> "0x5208", input |-> input, output |-> output, error |-> error,
   calls |-> calls]

\* call.type?.toLowerCase(), on the type strings of the model
LowerCaseType(type) ==
  CASE type = "CALL" -> "call"
    [] type = "STATICCALL" -> "staticcall"
    [] type = "DELEGATECALL" -> "delegatecall"
    [] type = "DelegateCall" -> "delegatecall"
    [] type = "CREATE" -> "create"
    [] type = "CREATE2" -> "create2"
    [] type = "SELFDESTRUCT" -> "selfdestruct"
    [] type = "INVALID" -> "invalid"
    [] OTHER -> type

\* The switch on the type as written in the trace.
GetCallTypeCaseSensitive(call) ==
  IF call.type \in {"call", "staticcall", "delegatecall", "create", "create2"}
  THEN call.type
  ELSE "call"

\* getCallType
GetCallType(call) ==
  IF call.type = Absent THEN "call"
  ELSE IF LowerCaseType(call.type) \in {"call", "staticcall", "delegatecall", "create", "create2"}
  THEN LowerCaseType(call.type)
  ELSE "call"

RevertSelector == <<8, 195, 121, 160>>

\* toUtf8String on the bytes of the model, where the only bytes above 127
\* are 0xff, which no UTF-8 sequence contains.
Utf8Valid(bytes) == \A i \in 1..Len(bytes) : bytes[i] < 128

\* n rounded up to a multiple of 32
Ceil32(n) == ((n + WordBytes - 1) \div WordBytes) * WordBytes

\* ethers.AbiCoder.defaultAbiCoder().decode(['string'], data)[0]:
\* [ok, text]; ok is FALSE when decode or the access to element 0 throws.
DecodeAbiString(data) ==
  IF Len(data) < WordBytes THEN [ok |-> FALSE, text |-> <<>>]
  ELSE LET offset == WordValue(SubSeq(data, 1, WordBytes))
       IN IF offset + WordBytes > Len(data) THEN [ok |-> FALSE, text |-> <<>>]
          ELSE LET length == WordValue(SubSeq(data, offset + 1, offset + WordBytes))
                   start == offset + WordBytes
               IN IF start + Ceil32(length) > Len(data) THEN [ok |-> FALSE, text |-> <<>>]
                  ELSE LET text == SubSeq(data, start + 1, start + length)
                       IN IF Utf8Valid(text) THEN [ok |-> TRUE, text |-> text]
                          ELSE [ok |-> FALSE, text |-> <<>>]

NoReason == [kind |-> "none", bytes |-> <<>>]
TextReason(text) == [kind |-> "text", bytes |-> text]    \* a decoded string
RawReason(output) == [kind |-> "hex", bytes |-> output]  \* the output hex string

\* parseCallResult
ParseCallResult(call) ==
  IF call.error \notin {Absent, ""}
  THEN [success |-> FALSE, error |-> call.error,
        revertReason |->
          IF call.output.has /\ HexLen(call.output.bytes) > SelectorHexLen
          THEN \* try { if (startsWith) decode } catch { raw output }
               IF HexPrefix(call.output.bytes, SelectorHexLen) = RevertSelector
               THEN LET reason == DecodeAbiString(HexDrop(call.output.bytes, SelectorHexLen))
                    IN IF reason.ok THEN TextReason(reason.text)
                       ELSE RawReason(call.output.bytes)
               ELSE NoReason
          ELSE NoReason]
  ELSE [success |-> TRUE, error |-> Absent, revertReason |-> NoReason]

\* value || dflt, for strings
StrOr(value, dflt) == IF value \in {Absent, ""} THEN dflt ELSE value

\* The depth a subcall is parsed at, off by one.
SubcallDepthSame(depth) == depth

\* depth + 1 in parseCall's recursion
SubcallDepth(depth) == depth + 1

\* The one element of a singleton set.  A value bound by a set constructor
\* is computed once, however often the body uses it.
The(S) == CHOOSE x \in S : TRUE

\* The ParsedCall literal parseCall returns.
ParsedCallOf(call, depth, decodedFunction, result, subcalls) ==
  [type |-> GetCallType(call),
   from |-> call.from,
   to |-> call.to,
   value |-> StrOr(call.value, "0x0"),
   gasLimit |-> StrOr(call.gas, "0"),
   gasUsed |-> StrOr(call.gasUsed, "0"),
   success |-> result.success,
   error |-> result.error,
   revertReason |-> result.revertReason,
   depth |-> depth,
   decodedFunction |-> decodedFunction,
   events |-> <<>>,
   subcalls |-> subcalls]

\* call.input && call.input !== '0x' && call.to
HasInputToDecode(call) ==
  call.input.has /\ call.input.bytes # <<>> /\ call.to \notin {Absent, ""}

\* The decoding step of parseCall: the input is decoded only if it is
\* present, is not '0x', and the call has a target.
DecodeCallInput(call, st, oracle) ==
  IF HasInputToDecode(call)
  THEN DecodeFunctionCall(st.cache,
                          IF st.asked + 1 \in DOMAIN oracle THEN oracle[st.asked + 1]
                          ELSE NetFail,
                          call.to, call.input.bytes)
  ELSE [res |-> NoDecode, cache |-> st.cache, queried |-> FALSE]

\* parseCall(call, depth, eventsSoFar) for a call and, below, for a list of
\* subcalls.  st = [cache, asked]: the signature cache and the number of
\* registry queries made so far; oracle[k] is the registry's answer to the
\* k-th query.  Returns [node, cache, asked] / [nodes, cache, asked].
RECURSIVE ParseCall(_, _, _, _)
RECURSIVE ParseSubcalls(_, _, _, _, _)
ParseCall(call, depth, st, oracle) ==
  The(UNION {
    { [node |-> ParsedCallOf(call, depth, d.res, ParseCallResult(call), subs.nodes),
       cache |-> subs.cache,
       asked |-> subs.asked] :
      subs \in { ParseSubcalls(call.calls, 1, depth,
                               [cache |-> d.cache,
                                asked |-> IF d.queried THEN st.asked + 1 ELSE st.asked],
                               oracle) } } :
    d \in { DecodeCallInput(call, st, oracle) } })

ParseSubcalls(calls, i, depth, st, oracle) ==
  IF i > Len(calls) THEN [nodes |-> <<>>, cache |-> st.cache, asked |-> st.asked]
  ELSE The(UNION {
         { [nodes |-> <<first.node>> \o rest.nodes, cache |-> rest.cache,
            asked |-> rest.asked] :
           rest \in { ParseSubcalls(calls, i + 1, depth,
                                    [cache |-> first.cache, asked |-> first.asked],
                                    oracle) } } :
         first \in { ParseCall(calls[i], SubcallDepth(depth), st, oracle) } })

\* extractAllEvents
RECURSIVE ExtractAllEvents(_)
ExtractAllEvents(call) ==
  call.events \o Flatten([i \in 1..Len(call.subcalls) |-> ExtractAllEvents(call.subcalls[i])])

NoTrace == [has |-> FALSE, rootCall |-> <<>>, totalGasUsed |-> "", events |-> <<>>]

\* The value parseTrace returns for a trace with a first top-level call.
BuildParsedTrace(raw, cache, oracle) ==
  The({ [trace |-> [has |-> TRUE, rootCall |-> root.node, totalGasUsed |-> raw.gasUsed,
                    events |-> ExtractAllEvents(root.node)],
         cache |-> root.cache] :
        root \in { ParseCall(raw.calls[1], 0, [cache |-> cache, asked |-> 0], oracle) } })

\* One iteration of parseLogs' loop: the ParsedEvent of logs[i + 1], whose
\* logIndex is i.
ParsedEventOf(log, i, cache) ==
  [address |-> log.address, logIndex |-> i, rawTopics |-> log.topics,
   rawData |-> log.data,
   decodedEvent |-> IF Len(log.topics) > 0
                    THEN DecodeEventLog(cache, log.address, log.topics, log.data)
                    ELSE NoDecode]

\* parseLogs pushing only the events it decoded.
ParseLogsIntoDecodedOnly(logs, trace, cache) ==
  [trace EXCEPT !.rootCall.events =
     @ \o SelectSeq([i \in 1..Len(logs) |-> ParsedEventOf(logs[i], i - 1, cache)],
                    LAMBDA event : event.decodedEvent # NoDecode)]

\* parseLogs: every event is pushed onto parsedTrace.rootCall.events.
ParseLogsInto(logs, trace, cache) ==
  [trace EXCEPT !.rootCall.events =
     @ \o [i \in 1..Len(logs) |-> ParsedEventOf(logs[i], i - 1, cache)]]

\* The number of calls of a raw call tree whose input parseCall decodes: no
\* more registry lookups than that are made while the tree is parsed.
RECURSIVE CountDecoded(_)
RECURSIVE SumSeq(_)
SumSeq(ns) == IF Len(ns) = 0 THEN 0 ELSE ns[1] + SumSeq(Tail(ns))
CountDecoded(call) ==
  (IF HasInputToDecode(call) THEN 1 ELSE 0)
  + SumSeq([i \in 1..Len(call.calls) |-> CountDecoded(call.calls[i])])

(***************************************************************************)
(* Inputs of the parser.                                                   *)
(***************************************************************************)
MaxNodes == 4   \* calls in one raw call tree
MaxLogs == 2    \* logs in one receipt

\* The ABI encoding of one string: offset 32, length, the bytes padded to
\* a multiple of 32.
EncodeString(text) ==
  NumWord(WordBytes) \o NumWord(Len(text)) \o text \o Zeros(Ceil32(Len(text)) - Len(text))

\* "Insufficient balance"
InsufficientBalance ==
  <<73, 110, 115, 117, 102, 102, 105, 99, 105, 101, 110, 116, 32, 98, 97, 108, 97,
    110, 99, 101>>

Outputs ==
  { NoBytes,
    Bytes(<<>>),
    \* Error(string), well formed
    Bytes(RevertSelector \o EncodeString(InsufficientBalance)),
    Bytes(RevertSelector \o EncodeString(<<>>)),
    \* Error(string) selector alone
    Bytes(RevertSelector),
    \* Error(string) selector followed by data that does not decode
    Bytes(RevertSelector \o NumWord(WordBytes)),
    Bytes(RevertSelector \o BigWord \o NumWord(1) \o Zeros(WordBytes)),
    Bytes(RevertSelector \o NumWord(WordBytes) \o NumWord(64) \o Zeros(WordBytes)),
    Bytes(RevertSelector \o NumWord(WordBytes) \o NumWord(1) \o <<255>> \o Zeros(31)),
    \* a custom error without and with arguments, and Panic(uint256)
    Bytes(<<1, 2, 3, 4>>),
    Bytes(<<1, 2, 3, 4>> \o NumWord(1)),
    Bytes(<<78, 72, 123, 113>> \o NumWord(17)) }

Errors == {Absent, "", "execution reverted"}

\* The two kinds of call the trees are built from.
TreeNodeOk(calls) ==
  RawCall("CALL", "0xbb",
          Bytes(SelTransferFrom \o AddrWord \o AddrWord \o NumWord(7)),
          NoBytes, Absent, calls)
TreeNodeReverted(calls) ==
  RawCall("DELEGATECALL", "0xcc", Bytes(<<>>),
          Bytes(RevertSelector \o EncodeString(<<110, 111>>)), "execution reverted", calls)

\* The raw call trees with exactly n calls, and the lists of trees with k
\* calls in all.
RECURSIVE TreesOfSize(_)
RECURSIVE ForestsOfSize(_)
TreesOfSize(n) ==
  UNION { {TreeNodeOk(f), TreeNodeReverted(f)} : f \in ForestsOfSize(n - 1) }
ForestsOfSize(k) ==
  IF k = 0 THEN {<<>>}
  ELSE UNION { { <<t>> \o f : t \in TreesOfSize(j), f \in ForestsOfSize(k - j) } :
               j \in 1..k }

Trees == UNION { TreesOfSize(n) : n \in 1..MaxNodes }

\* Single calls that vary the result fields, and single calls that vary
\* the fields that decide whether the input is decoded.
ResultCalls ==
  { RawCall("CALL", "0xbb", Bytes(<<>>), output, error, <<>>) :
      output \in Outputs, error \in Errors }
InputCalls ==
  { RawCall("STATICCALL", to, input, NoBytes, Absent, <<>>) :
      to \in {Absent, "0xbb"},
      input \in {NoBytes, Bytes(<<>>), Bytes(<<169, 5>>),
                 Bytes(SelTransfer \o AddrWord \o NumWord(5)),
                 Bytes(SelTransfer \o AddrWord)} }

\* Type strings: the five kinds in upper, lower and mixed case, other
\* opcodes, the empty string and a missing type.
TypeStrings ==
  { Absent, "", "CALL", "call", "STATICCALL", "DelegateCall", "CREATE", "CREATE2",
    "SELFDESTRUCT", "INVALID" }

\* Calls that vary the type, alone and above a call of another opcode.
TypeCalls ==
  { RawCall(type, "0xbb", NoBytes, NoBytes, Absent, calls) :
      type \in TypeStrings,
      calls \in { <<>>, << RawCall("SELFDESTRUCT", "0xcc", NoBytes, NoBytes, Absent, <<>>) >> } }

RawTraceRecord(hasCalls, calls) == [hasCalls |-> hasCalls, calls |-> calls, gasUsed |-> "0x5208"]

RawTraces ==
  { RawTraceRecord(FALSE, <<>>), RawTraceRecord(TRUE, <<>>) }
  \cup { RawTraceRecord(TRUE, <<t>>) :
           t \in Trees \cup ResultCalls \cup InputCalls \cup TypeCalls }
  \cup { RawTraceRecord(TRUE, <<t, TreeNodeReverted(<<>>)>>) : t \in TreesOfSize(1) }

\* What the registry may answer while a trace is parsed.
ParseResponses ==
  { NetFail, JsonResults(<<Candidate(SigTransferFrom)>>),
    JsonResults(<<Candidate(SigGaspriceBitEther)>>) }

Receipts == SeqsUpTo(Logs \ {LogTransfer721}, MaxLogs)

(***************************************************************************)
(* SpecParse: parseTrace, then parseLogs, on one TraceParser.              *)
(***************************************************************************)
\* The guard of parseTrace with the length test left out.
HasNoTraceDataMissingOnly(raw) == ~raw.hasCalls

\* !rawTrace.calls || rawTrace.calls.length === 0
HasNoTraceData(raw) == ~raw.hasCalls \/ Len(raw.calls) = 0

\* parseTrace(rawTrace, transactionInfo) throwing: on the guard, or, were a
\* trace without a first call to pass the guard, on reading that call.
ParseTraceFails ==
  /\ parsePc = "start"
  /\ HasNoTraceData(rawTrace) \/ Len(rawTrace.calls) = 0
  /\ parsePc' = "failed"
  /\ parseErr' = IF HasNoTraceData(rawTrace) THEN "No trace data to parse"
                 ELSE "TypeError: Cannot read properties of undefined"
  /\ UNCHANGED <<rawTrace, receiptLogs, parsedTrace, signatureCache>>

\* parseTrace(rawTrace, transactionInfo) on a trace with top-level calls;
\* the registry answers the successive lookups with oracle[1], oracle[2], ...
ParseTrace ==
  /\ parsePc = "start"
  /\ ~HasNoTraceData(rawTrace) /\ Len(rawTrace.calls) > 0
  /\ \E oracle \in [1..CountDecoded(rawTrace.calls[1]) -> ParseResponses] :
       \E built \in {BuildParsedTrace(rawTrace, signatureCache, oracle)} :
          /\ parsedTrace' = built.trace
          /\ signatureCache' = built.cache
  /\ parsePc' = "parsed"
  /\ UNCHANGED <<rawTrace, receiptLogs, parseErr>>

\* parseLogs(logs, parsedTrace)
ParseLogs ==
  /\ parsePc = "parsed"
  /\ \E logs \in Receipts :
       /\ receiptLogs' = logs
       /\ parsedTrace' = ParseLogsInto(logs, parsedTrace, eventCache)
  /\ parsePc' = "logged"
  /\ UNCHANGED <<rawTrace, parseErr, signatureCache>>

(***************************************************************************)
(* TokenService                                                            *)
(***************************************************************************)
TokenInfo(address, name, symbol, decimals) ==
  [address |-> address, name |-> name, symbol |-> symbol, decimals |-> decimals]
NoToken == TokenInfo("", "", "", 0)

\* loadWellKnownTokens: the table, with the addresses as written.
WellKnownTokens ==
  << TokenInfo("0x15D4c048F83bd7e37d49eA4C83a07267Ec4203dA", "Gala (V1)", "GALA", 8),
     TokenInfo("0xdBf4d0c1b85BB7fEFDbF7C14f7D83CC4F3Bd79BB", "Gala", "GALA", 8),
     TokenInfo("0xdAC17F958D2ee523a2206206994597C13D831ec7", "Tether USD", "USDT", 6),
     TokenInfo("0xA0b86a33E6441000000000000000000000000000", "USD Coin", "USDC", 6),
     TokenInfo("0x6B175474E89094C44Da98b954EedeAC495271d0F", "DAI Stablecoin", "DAI", 18),
     TokenInfo("0xC02aaA39b223FE8D0A0e5C4F27eAD9083C756Cc2", "Wrapped Ether", "WETH", 18),
     TokenInfo("0x1f9840a85d5aF5bf1D1762F925BDADdC4201F984", "Uniswap", "UNI", 18),
     TokenInfo("0x7Fc66500c84A76Ad7e9c93437bFc5Ac33E2DDaE9", "Aave Token", "AAVE", 18),
     TokenInfo("0xc00e94Cb662C3520282E6f5717214004A7f26888", "Compound", "COMP", 18),
     TokenInfo("0x2260FAC5E5542a773Aa44fBCfeDf7C193bc2C599", "Wrapped BTC", "WBTC", 8),
     TokenInfo("0xA0b73E1Ff0B80914AB6fe0444E65848C4C34450b", "Curve.fi Registry Exchange",
               "CRV Exchange", 0),
     TokenInfo("0x7a250d5630B4cF539739dF2C5dAcb4c659F2488D", "Uniswap V2 Router",
               "UniswapV2", 0),
     TokenInfo("0xE592427A0AEce92De3Edee1F18E0157C05861564", "Uniswap V3 Router",
               "UniswapV3", 0) >>

\* address.toLowerCase(), on the addresses of the model
ToLowerCase(a) ==
  CASE a = "0x15D4c048F83bd7e37d49eA4C83a07267Ec4203dA" -> "0x15d4c048f83bd7e37d49ea4c83a07267ec4203da"
    [] a = "0xdBf4d0c1b85BB7fEFDbF7C14f7D83CC4F3Bd79BB" -> "0xdbf4d0c1b85bb7fefdbf7c14f7d83cc4f3bd79bb"
    [] a = "0xdAC17F958D2ee523a2206206994597C13D831ec7" -> "0xdac17f958d2ee523a2206206994597c13d831ec7"
    [] a = "0xA0b86a33E6441000000000000000000000000000" -> "0xa0b86a33e6441000000000000000000000000000"
    [] a = "0x6B175474E89094C44Da98b954EedeAC495271d0F" -> "0x6b175474e89094c44da98b954eedeac495271d0f"
    [] a = "0xC02aaA39b223FE8D0A0e5C4F27eAD9083C756Cc2" -> "0xc02aaa39b223fe8d0a0e5c4f27ead9083c756cc2"
    [] a = "0x1f9840a85d5aF5bf1D1762F925BDADdC4201F984" -> "0x1f9840a85d5af5bf1d1762f925bdaddc4201f984"
    [] a = "0x7Fc66500c84A76Ad7e9c93437bFc5Ac33E2DDaE9" -> "0x7fc66500c84a76ad7e9c93437bfc5ac33e2ddae9"
    [] a = "0xc00e94Cb662C3520282E6f5717214004A7f26888" -> "0xc00e94cb662c3520282e6f5717214004a7f26888"
    [] a = "0x2260FAC5E5542a773Aa44fBCfeDf7C193bc2C599" -> "0x2260fac5e5542a773aa44fbcfedf7c193bc2c599"
    [] a = "0xA0b73E1Ff0B80914AB6fe0444E65848C4C34450b" -> "0xa0b73e1ff0b80914ab6fe0444e65848c4c34450b"
    [] a = "0x7a250d5630B4cF539739dF2C5dAcb4c659F2488D" -> "0x7a250d5630b4cf539739df2c5dacb4c659f2488d"
    [] a = "0xE592427A0AEce92De3Edee1F18E0157C05861564" -> "0xe592427a0aece92de3edee1f18e0157c05861564"
    [] a = "0xAbCdEf0000000000000000000000000000000001" -> "0xabcdef0000000000000000000000000000000001"
    [] OTHER -> a

\* The key of the cache taken as written, without lower-casing.
CacheKeyVerbatim(address) == address

\* const lowerAddress = address.toLowerCase()
CacheKey(address) == ToLowerCase(address)

\* The token cache after the constructor.
SeededTokenCache ==
  [key \in {CacheKey(WellKnownTokens[i].address) : i \in 1..Len(WellKnownTokens)} |->
     WellKnownTokens[CHOOSE i \in 1..Len(WellKnownTokens) :
                       CacheKey(WellKnownTokens[i].address) = key
                       /\ \A j \in 1..Len(WellKnownTokens) :
                            CacheKey(WellKnownTokens[j].address) = key => j <= i]]

MaxTokenCalls == 3   \* getTokenInfo calls on one TokenService

\* An unknown contract written in two ways, and WETH written in two ways.
TokenAddresses ==
  { "0xAbCdEf0000000000000000000000000000000001",
    "0xabcdef0000000000000000000000000000000001",
    "0xC02aaA39b223FE8D0A0e5C4F27eAD9083C756Cc2",
    "0xc02aaa39b223fe8d0a0e5c4f27ead9083c756cc2" }

\* What the three reads give once their failures are caught: '' for a name
\* or symbol that failed or is empty, 18 for decimals that failed.
NameReads == {"", "Token"}
SymbolReads == {"", "TKN"}
DecimalsReads == {18, 6}

TokenCall(address, state, resolved, result) ==
  [address |-> address, state |-> state, resolved |-> resolved, result |-> result]

\* getTokenInfo(address) up to its await: a cache hit returns at once, a miss
\* starts the three reads.
GetTokenInfoStart(address) ==
  /\ Len(tokenCalls) < MaxTokenCalls
  /\ IF CacheKey(address) \in DOMAIN tokenCache
     THEN /\ tokenCalls' = Append(tokenCalls,
                             TokenCall(address, "done", FALSE, tokenCache[CacheKey(address)]))
          /\ UNCHANGED <<tokenCache, resolutions>>
     ELSE /\ tokenCalls' = Append(tokenCalls, TokenCall(address, "awaiting", TRUE, NoToken))
          /\ resolutions' = [resolutions EXCEPT ![ToLowerCase(address)] = @ + 1]
          /\ UNCHANGED tokenCache
  /\ UNCHANGED cachedLookup

\* Every contract taken for a token, whatever was read.
IsTokenAlways(name, symbol) == TRUE

\* if (name || symbol)
IsToken(name, symbol) == name # "" \/ symbol # ""

\* getTokenInfo from the completion of Promise.all on: call c read name,
\* symbol and decimals.
GetTokenInfoFinish(c, name, symbol, decimals) ==
  /\ c \in 1..Len(tokenCalls)
  /\ tokenCalls[c].state = "awaiting"
  /\ IF IsToken(name, symbol)
     THEN LET tokenInfo == TokenInfo(tokenCalls[c].address,
                                     IF name # "" THEN name ELSE "Unknown Token",
                                     IF symbol # "" THEN symbol ELSE "UNK",
                                     decimals)
              key == CacheKey(tokenCalls[c].address)
          IN /\ tokenCache' = [k \in DOMAIN tokenCache \cup {key} |->
                                 IF k = key THEN tokenInfo ELSE tokenCache[k]]
             /\ tokenCalls' = [tokenCalls EXCEPT ![c].state = "done", ![c].result = tokenInfo]
     ELSE /\ tokenCalls' = [tokenCalls EXCEPT ![c].state = "done"]
          /\ UNCHANGED tokenCache
  /\ UNCHANGED <<resolutions, cachedLookup>>

\* The lookup of getCachedTokenInfo under the address as written.
CachedEntryVerbatim(cache, address) ==
  IF address \in DOMAIN cache THEN cache[address] ELSE NoToken

\* this.tokenCache.get(address.toLowerCase()) || null
CachedEntry(cache, address) ==
  IF ToLowerCase(address) \in DOMAIN cache THEN cache[ToLowerCase(address)] ELSE NoToken

\* Whether a getTokenInfo call that resolved the address externally has returned.
ResolutionCompleted(address) ==
  \E c \in 1..Len(tokenCalls) :
    /\ ToLowerCase(tokenCalls[c].address) = ToLowerCase(address)
    /\ tokenCalls[c].resolved
    /\ tokenCalls[c].state = "done"

NoLookup == [made |-> FALSE, address |-> "", result |-> NoToken, completed |-> FALSE]

\* getCachedTokenInfo(address): synchronous, callable between any two steps
\* of the getTokenInfo calls.  completed records whether a resolution of the
\* address had completed when the call was made.
GetCachedTokenInfo(address) ==
  /\ cachedLookup' = [made |-> TRUE, address |-> address,
                      result |-> CachedEntry(tokenCache, address),
                      completed |-> ResolutionCompleted(address)]
  /\ UNCHANGED <<tokenCache, tokenCalls, resolutions>>

NoneAwaiting == \A c \in 1..Len(tokenCalls) : tokenCalls[c].state = "done"

(***************************************************************************)
(* DefiDetector.  Confidences are in hundredths: 0.9 is 90, 0.95 is 95.    *)
(* The overall confidence is a quotient, kept as the pair [num, den].      *)
(***************************************************************************)
UNISWAP_V2 == "uniswap-v2"
AddressConfidence == 90
SwapConfidence == 95
LiquidityConfidence == 90

\* initializeSignatures: contractSignatures, keyed by lower-cased address
ContractSignatures ==
  [a \in {"0x7a250d5630b4cf539739df2c5dacb4c659f2488d",
          "0x5c69bee701ef814a2b6a3edd4b1652cb9cc5aa6f"} |->
     [protocol |-> UNISWAP_V2, version |-> "2.0",
      name |-> IF a = "0x7a250d5630b4cf539739df2c5dacb4c659f2488d"
               THEN "Uniswap V2 Router 02" ELSE "Uniswap V2 Factory"]]

SwapFunctionNames ==
  {"swapExactTokensForTokens", "swapTokensForExactTokens", "swapExactETHForTokens",
   "swapTokensForExactETH", "swapExactTokensForETH", "swapETHForExactTokens"}

\* The function table with the confidence 0.8 for every entry.
FunctionSignaturesLowConfidence ==
  [n \in SwapFunctionNames \cup {"addLiquidity", "removeLiquidity"} |->
     [protocol |-> UNISWAP_V2,
      type |-> IF n \in SwapFunctionNames THEN "swap"
               ELSE IF n = "addLiquidity" THEN "liquidity_add" ELSE "liquidity_remove",
      confidence |-> 80]]

\* initializeSignatures: functionSignatures, keyed by function name
FunctionSignatures ==
  [n \in SwapFunctionNames \cup {"addLiquidity", "removeLiquidity"} |->
     [protocol |-> UNISWAP_V2,
      type |-> IF n \in SwapFunctionNames THEN "swap"
               ELSE IF n = "addLiquidity" THEN "liquidity_add" ELSE "liquidity_remove",
      confidence |-> IF n \in SwapFunctionNames THEN SwapConfidence
                     ELSE LiquidityConfidence]]

\* functionName.includes(part), on the function names of the model
Includes(functionName, part) ==
  CASE part = "swap" -> functionName \in SwapFunctionNames
    [] part = "addLiquidity" -> functionName = "addLiquidity"
    [] part = "removeLiquidity" -> functionName = "removeLiquidity"
    [] part = "ETH" -> functionName \in {"swapExactETHForTokens", "swapTokensForExactETH",
                                         "swapExactTokensForETH", "swapETHForExactTokens"}
    [] OTHER -> FALSE

\* ParsedCall, with the fields the detector reads.  decodedFunction is
\* NoFunction when the call has none.
DecodedFunction(name, inputs) == [has |-> TRUE, name |-> name, inputs |-> inputs]
NoFunction == [has |-> FALSE, name |-> "", inputs |-> <<>>]
Input(name, value) == [name |-> name, value |-> value]
DefiCall(to, success, decodedFunction, value, subcalls) ==
  [to |-> to, success |-> success, decodedFunction |-> decodedFunction,
   value |-> value, subcalls |-> subcalls]

DetectionResult(confidence, protocol, version, evidence, contractAddress, functionName) ==
  [found |-> TRUE, confidence |-> confidence, protocol |-> protocol, version |-> version,
   evidence |-> evidence, contractAddress |-> contractAddress,
   functionName |-> functionName]
NoDetection ==
  [found |-> FALSE, confidence |-> 0, protocol |-> "", version |-> "",
   evidence |-> "", contractAddress |-> "", functionName |-> Absent]

\* call.decodedFunction?.name
DecodedName(call) == IF call.decodedFunction.has THEN call.decodedFunction.name ELSE Absent

\* The two checks in the other order: the function name first.
DetectProtocolFromCallFunctionFirst(call) ==
  IF call.decodedFunction.has /\ call.decodedFunction.name \in DOMAIN FunctionSignatures
  THEN DetectionResult(FunctionSignatures[call.decodedFunction.name].confidence,
                       FunctionSignatures[call.decodedFunction.name].protocol, "",
                       "function", call.to, call.decodedFunction.name)
  ELSE IF ToLowerCase(call.to) \in DOMAIN ContractSignatures
  THEN DetectionResult(AddressConfidence, ContractSignatures[ToLowerCase(call.to)].protocol,
                       ContractSignatures[ToLowerCase(call.to)].version,
                       "address", call.to, DecodedName(call))
  ELSE NoDetection

\* detectProtocolFromCall
DetectProtocolFromCall(call) ==
  IF ToLowerCase(call.to) \in DOMAIN ContractSignatures
  THEN DetectionResult(AddressConfidence, ContractSignatures[ToLowerCase(call.to)].protocol,
                       ContractSignatures[ToLowerCase(call.to)].version,
                       "address", call.to, DecodedName(call))
  ELSE IF call.decodedFunction.has /\ call.decodedFunction.name \in DOMAIN FunctionSignatures
  THEN DetectionResult(FunctionSignatures[call.decodedFunction.name].confidence,
                       FunctionSignatures[call.decodedFunction.name].protocol, "",
                       "function", call.to, call.decodedFunction.name)
  ELSE NoDetection

\* TokenService.getTokenInfo run to its end on the cache: the entry of a
\* cached address; otherwise the three reads, whose result is stored when a
\* name or a symbol was read.  info is NoToken for null.
ResolveToken(cache, address, reads) ==
  IF CacheKey(address) \in DOMAIN cache
  THEN [info |-> cache[CacheKey(address)], cache |-> cache]
  ELSE IF reads.name # "" \/ reads.symbol # ""
  THEN LET tokenInfo == TokenInfo(address,
                                  IF reads.name # "" THEN reads.name ELSE "Unknown Token",
                                  IF reads.symbol # "" THEN reads.symbol ELSE "UNK",
                                  reads.decimals)
       IN [info |-> tokenInfo,
           cache |-> [k \in DOMAIN cache \cup {CacheKey(address)} |->
                        IF k = CacheKey(address) THEN tokenInfo ELSE cache[k]]]
  ELSE [info |-> NoToken, cache |-> cache]

WETH == "0xC02aaA39b223FE8D0A0e5C4F27eAD9083C756Cc2"
EthToken(address) == TokenInfo(address, "Ethereum", "ETH", 18)
UnknownToken(address) == TokenInfo(address, "Unknown Token", "UNK", 18)

\* One end of the swap: ETH for WETH in an ETH function, else the token
\* service's answer, else the unknown token.
SwapToken(address, functionName, hasService, cache, reads) ==
  IF ToLowerCase(address) = ToLowerCase(WETH) /\ Includes(functionName, "ETH")
  THEN [token |-> EthToken(address), cache |-> cache]
  ELSE IF hasService
  THEN The({ [token |-> IF r.info # NoToken
                        THEN TokenInfo(address, r.info.name, r.info.symbol, r.info.decimals)
                        ELSE UnknownToken(address),
              cache |-> r.cache] : r \in {ResolveToken(cache, address, reads)} })
  ELSE [token |-> UnknownToken(address), cache |-> cache]

\* The loop over path that builds the route of a multi-hop swap, from
\* element i on.  An element that is not a string throws at toLowerCase.
RECURSIVE RouteFrom(_, _, _, _, _)
RouteFrom(path, i, cache, reads, route) ==
  IF i > Len(path) THEN [threw |-> FALSE, route |-> route, cache |-> cache]
  ELSE IF path[i].k # "str" THEN [threw |-> TRUE, route |-> route, cache |-> cache]
  ELSE IF ToLowerCase(path[i].v) = ToLowerCase(WETH)
  THEN RouteFrom(path, i + 1, cache, reads, Append(route, EthToken(path[i].v)))
  ELSE The({ RouteFrom(path, i + 1, r.cache, reads,
                       Append(route, IF r.info # NoToken
                                     THEN TokenInfo(path[i].v, r.info.name, r.info.symbol,
                                                    r.info.decimals)
                                     ELSE UnknownToken(path[i].v))) :
             r \in {ResolveToken(cache, path[i].v, reads)} })

\* inputs.find(i => i.name === name)?.value
FindValue(inputs, name) ==
  IF \E i \in 1..Len(inputs) : inputs[i].name = name
  THEN inputs[CHOOSE i \in 1..Len(inputs) :
                inputs[i].name = name /\ \A j \in 1..(i - 1) : inputs[j].name # name].value
  ELSE Undef

NoSwapDetails ==
  [has |-> FALSE, tokenIn |-> NoToken, tokenOut |-> NoToken, amountIn |-> Str(""),
   amountOut |-> Str(""), route |-> <<>>, isMultiHop |-> FALSE]
Extracted(threw, details, cache) == [threw |-> threw, details |-> details, cache |-> cache]

\* amountIn and amountOut as the branches on the function name set them,
\* before the || '0' of the returned object.
AmountIn(call) ==
  IF call.decodedFunction.name \in {"swapExactTokensForTokens", "swapExactTokensForETH"}
  THEN OrElse(FindValue(call.decodedFunction.inputs, "amountIn"), Str(""))
  ELSE IF call.decodedFunction.name = "swapExactETHForTokens"
  THEN OrElse(Str(call.value), Str("0"))
  ELSE Str("")
AmountOut(call) ==
  IF call.decodedFunction.name \in {"swapTokensForExactTokens", "swapTokensForExactETH",
                                    "swapETHForExactTokens"}
  THEN OrElse(FindValue(call.decodedFunction.inputs, "amountOut"), Str(""))
  ELSE Str("")

\* The body of the try of extractSwapDetails.  threw is TRUE when a statement
\* of the body throws: the path is an object without length and elements
\* (the path values of the model are arrays, objects, null and undefined), or
\* an element whose toLowerCase is called is not a string.
SwapPath(fn) ==
  IF fn.name \in SwapFunctionNames THEN OrElse(FindValue(fn.inputs, "path"), Arr(<<>>))
  ELSE Arr(<<>>)

\* The end of the body, from the multi-hop route on.
SwapRoute(call, path, hasService, tin, tout, reads) ==
  The({ IF hops.threw THEN Extracted(TRUE, NoSwapDetails, hops.cache)
        ELSE Extracted(FALSE,
               [has |-> TRUE, tokenIn |-> tin.token, tokenOut |-> tout.token,
                amountIn |-> OrElse(AmountIn(call), Str("0")),
                amountOut |-> OrElse(AmountOut(call), Str("0")),
                route |-> IF Len(hops.route) > 2 THEN hops.route ELSE <<>>,
                isMultiHop |-> Len(path.v) > 2],
               hops.cache) :
        hops \in { IF Len(path.v) > 2 /\ hasService
                   THEN RouteFrom(path.v, 1, tout.cache, reads, <<>>)
                   ELSE [threw |-> FALSE, route |-> <<tin.token, tout.token>>,
                         cache |-> tout.cache] } })

\* The body from tokenIn on, for a path of two elements or more.
SwapEnds(call, path, hasService, cache, reads) ==
  IF path.v[1].k # "str" THEN Extracted(TRUE, NoSwapDetails, cache)
  ELSE The({ IF path.v[Len(path.v)].k # "str" THEN Extracted(TRUE, NoSwapDetails, tin.cache)
             ELSE The({ SwapRoute(call, path, hasService, tin, tout, reads) :
                        tout \in { SwapToken(path.v[Len(path.v)].v, call.decodedFunction.name,
                                             hasService, tin.cache, reads) } }) :
             tin \in { SwapToken(path.v[1].v, call.decodedFunction.name, hasService,
                                 cache, reads) } })

ExtractSwapDetailsBody(call, hasService, cache, reads) ==
  The({ IF path.k # "arr" THEN Extracted(TRUE, NoSwapDetails, cache)
        ELSE IF Len(path.v) < 2 THEN Extracted(FALSE, NoSwapDetails, cache)
        ELSE SwapEnds(call, path, hasService, cache, reads) :
        path \in { SwapPath(call.decodedFunction) } })

\* extractSwapDetails without its catch: what the body throws leaves it.
ExtractSwapDetailsUncaught(call, hasService, cache, reads) ==
  IF ~call.decodedFunction.has THEN Extracted(FALSE, NoSwapDetails, cache)
  ELSE ExtractSwapDetailsBody(call, hasService, cache, reads)

\* extractSwapDetails: the catch turns a throw into null.
ExtractSwapDetails(call, hasService, cache, reads) ==
  IF ~call.decodedFunction.has THEN Extracted(FALSE, NoSwapDetails, cache)
  ELSE The({ IF body.threw THEN Extracted(FALSE, NoSwapDetails, body.cache) ELSE body :
             body \in { ExtractSwapDetailsBody(call, hasService, cache, reads) } })

\* generateInteractionDescription
GenerateInteractionDescription(functionName, swapDetails) ==
  IF Includes(functionName, "swap") /\ swapDetails.has
  THEN (IF swapDetails.isMultiHop THEN "Multi-hop token swap: " ELSE "Token swap: ")
       \o (IF swapDetails.tokenIn.symbol # "" THEN swapDetails.tokenIn.symbol ELSE "Token")
       \o " -> "
       \o (IF swapDetails.tokenOut.symbol # "" THEN swapDetails.tokenOut.symbol ELSE "Token")
       \o " via Uniswap V2"
  ELSE IF Includes(functionName, "addLiquidity") THEN "Add liquidity to Uniswap V2 pool"
  ELSE IF Includes(functionName, "removeLiquidity")
  THEN "Remove liquidity from Uniswap V2 pool"
  ELSE "Uniswap V2 " \o functionName

DefiInteraction(type, description, success, swapDetails, to, functionName, confidence) ==
  [type |-> type, protocol |-> UNISWAP_V2, version |-> "2.0", description |-> description,
   success |-> success, swapDetails |-> swapDetails, contractAddress |-> to,
   functionName |-> functionName, confidence |-> confidence]

\* What an async method did: threw, or returned the interactions it built
\* (none for null), with the token cache as it left it.
Built(threw, interactions, cache) ==
  [threw |-> threw, interactions |-> interactions, cache |-> cache]

\* The type by equality with the name instead of by substring.
InteractionTypeExact(functionName) ==
  IF functionName = "swap" THEN "swap"
  ELSE IF functionName = "addLiquidity" THEN "liquidity_add"
  ELSE IF functionName = "removeLiquidity" THEN "liquidity_remove"
  ELSE "unknown"

\* The interaction type, by substring of the function name.
InteractionType(functionName) ==
  IF Includes(functionName, "swap") THEN "swap"
  ELSE IF Includes(functionName, "addLiquidity") THEN "liquidity_add"
  ELSE IF Includes(functionName, "removeLiquidity") THEN "liquidity_remove"
  ELSE "unknown"

\* analyzeUniswapV2Call
AnalyzeUniswapV2Call(call, detection, hasService, cache, reads) ==
  IF ~call.decodedFunction.has \/ ~call.success THEN Built(FALSE, <<>>, cache)
  ELSE The({ IF swap.threw THEN Built(TRUE, <<>>, swap.cache)
             ELSE Built(FALSE,
                        << DefiInteraction(InteractionType(call.decodedFunction.name),
                             GenerateInteractionDescription(call.decodedFunction.name,
                                                            swap.details),
                             call.success, swap.details, call.to, call.decodedFunction.name,
                             detection.confidence) >>,
                        swap.cache) :
             swap \in { IF InteractionType(call.decodedFunction.name) = "swap"
                        THEN ExtractSwapDetails(call, hasService, cache, reads)
                        ELSE Extracted(FALSE, NoSwapDetails, cache) } })

\* convertDetectionToInteraction: null for another protocol, and for
\* whatever analyzeUniswapV2Call throws.
ConvertDetectionToInteraction(call, detection, hasService, cache, reads) ==
  IF detection.protocol = UNISWAP_V2
  THEN The({ IF r.threw THEN Built(FALSE, <<>>, r.cache) ELSE r :
             r \in { AnalyzeUniswapV2Call(call, detection, hasService, cache, reads) } })
  ELSE Built(FALSE, <<>>, cache)

\* analyzeCall: the call, then its subcalls in order, each appending to the
\* interactions.  AnalyzeSubcalls is the loop from subcall i on.
RECURSIVE AnalyzeCall(_, _, _, _, _)
RECURSIVE AnalyzeSubcalls(_, _, _, _, _, _)
OwnInteraction(call, detection, hasService, cache, reads) ==
  IF detection.found
  THEN ConvertDetectionToInteraction(call, detection, hasService, cache, reads)
  ELSE Built(FALSE, <<>>, cache)
\* One execution of analyzeCall's body: the call it was entered with,
\* named by its position in the tree (the indices from the root down), and
\* the interactions it pushed.
Visit(path, pushed) == [path |-> path, pushed |-> pushed]

\* The interactions array and the token cache as the walk left them, with the
\* visits made so far.
Walked(threw, interactions, cache, visits) ==
  [threw |-> threw, interactions |-> interactions, cache |-> cache, visits |-> visits]

\* The new interaction put in front of the array.
Unshift(interactions, own) == own \o interactions

\* if (interaction) interactions.push(interaction): own is empty for null.
Push(interactions, own) == interactions \o own

AnalyzeCall(call, path, walk, hasService, reads) ==
  The({ IF own.threw
        THEN Walked(TRUE, walk.interactions, own.cache,
                    Append(walk.visits, Visit(path, <<>>)))
        ELSE The({ AnalyzeSubcalls(call.subcalls, 1, path, next, hasService, reads) :
                   next \in { Walked(FALSE, Push(walk.interactions, own.interactions),
                                     own.cache,
                                     Append(walk.visits, Visit(path, own.interactions))) } }) :
        own \in { The({ OwnInteraction(call, detection, hasService, walk.cache, reads) :
                        detection \in { DetectProtocolFromCall(call) } }) } })
AnalyzeSubcalls(subcalls, i, path, walk, hasService, reads) ==
  IF i > Len(subcalls) THEN walk
  ELSE The({ IF r.threw THEN r
             ELSE AnalyzeSubcalls(subcalls, i + 1, path, r, hasService, reads) :
             r \in { AnalyzeCall(subcalls[i], Append(path, i), walk, hasService, reads) } })

\* detectInteractions
DetectInteractions(trace, hasService, cache, reads) ==
  AnalyzeCall(trace.rootCall, <<>>, Walked(FALSE, <<>>, cache, <<>>), hasService, reads)

Quotient(num, den) == [num |-> num, den |-> den]
SameQuotient(p, q) == p.num * q.den = q.num * p.den

RECURSIVE TotalConfidence(_)
TotalConfidence(interactions) ==
  IF Len(interactions) = 0 THEN 0
  ELSE interactions[1].confidence + TotalConfidence(Tail(interactions))

\* The confidence of the first interaction taken for the overall one.
CalculateOverallConfidenceFirst(interactions) ==
  IF Len(interactions) = 0 THEN Quotient(0, 1)
  ELSE Quotient(interactions[1].confidence, 1)

\* calculateOverallConfidence
CalculateOverallConfidence(interactions) ==
  IF Len(interactions) = 0 THEN Quotient(0, 1)
  ELSE Quotient(TotalConfidence(interactions), Len(interactions))

\* [...new Set(values)]: the distinct values in the order of their first occurrence
RECURSIVE Distinct(_)
Distinct(values) ==
  IF Len(values) = 0 THEN <<>>
  ELSE LET front == Distinct(SubSeq(values, 1, Len(values) - 1))
           last == values[Len(values)]
       IN IF \E i \in 1..Len(front) : front[i] = last THEN front ELSE Append(front, last)

\* generateSummary
GenerateSummary(interactions) ==
  IF Len(interactions) = 0 THEN "No DeFi interactions detected"
  ELSE LET protocols == Distinct([i \in 1..Len(interactions) |-> interactions[i].protocol])
           types == Distinct([i \in 1..Len(interactions) |-> interactions[i].type])
       IN IF Len(protocols) = 1
          THEN protocols[1] \o " " \o JoinWith(types, ", ") \o " detected"
          ELSE "Multi-protocol DeFi interaction: " \o JoinWith(protocols, ", ")

DefiAnalysis(detected, protocol, interactions, summary, confidence) ==
  [returned |-> TRUE, detected |-> detected, protocol |-> protocol,
   interactions |-> interactions, summary |-> summary, confidence |-> confidence]
NoAnalysis ==
  [returned |-> FALSE, detected |-> FALSE, protocol |-> "", interactions |-> <<>>,
   summary |-> "", confidence |-> Quotient(0, 1)]

\* The analysis with the summary of generateSummary also when nothing is
\* detected.
AnalysisOfSummarized(r) ==
  IF r.threw
  THEN DefiAnalysis(FALSE, "", <<>>, "DeFi analysis unavailable due to error",
                    Quotient(0, 1))
  ELSE DefiAnalysis(Len(r.interactions) > 0,
                    IF Len(r.interactions) > 0 THEN r.interactions[1].protocol ELSE "",
                    r.interactions, GenerateSummary(r.interactions),
                    CalculateOverallConfidence(r.interactions))

\* The DefiAnalysis analyzeTrace returns for what detectInteractions did.
AnalysisOf(r) ==
  IF r.threw
  THEN DefiAnalysis(FALSE, "", <<>>, "DeFi analysis unavailable due to error",
                    Quotient(0, 1))
  ELSE IF Len(r.interactions) = 0
  THEN DefiAnalysis(FALSE, "", <<>>, "No DeFi protocol interactions detected",
                    Quotient(0, 1))
  ELSE DefiAnalysis(TRUE, r.interactions[1].protocol, r.interactions,
                    GenerateSummary(r.interactions),
                    CalculateOverallConfidence(r.interactions))

\* ---- the traces analysed
Router == "0x7a250d5630B4cF539739dF2C5dAcb4c659F2488D"
Targets == { Router, "0x5c69bee701ef814a2b6a3edd4b1652cb9cc5aa6f", "0xbb" }

UnknownAddress == "0xAbCdEf0000000000000000000000000000000001"
Usdt == "0xdAC17F958D2ee523a2206206994597C13D831ec7"

\* Values of the path parameter: lists of 0 to 3 addresses, lists with an
\* element that is not a string, null, and an object that is no list.
PathValues ==
  { Arr(<<>>), Arr(<<Str(Usdt)>>), Arr(<<Str(UnknownAddress), Str(Usdt)>>),
    Arr(<<Str(WETH), Str(UnknownAddress)>>),
    Arr(<<Str(Usdt), Str(WETH), Str(UnknownAddress)>>),
    Arr(<<Null, Str(Usdt)>>), Arr(<<Str(Usdt), Null, Str(UnknownAddress)>>),
    Null, RawTraceOf(Undef, Undef, Undef) }

SwapInputs(path) ==
  << Input("amountIn", Str("1000")), Input("amountOutMin", Str("1")),
     Input("path", path), Input("to", Str("0xbb")), Input("deadline", Str("99")) >>

DecodedFunctions ==
  { NoFunction }
  \cup { DecodedFunction("swapExactTokensForTokens", SwapInputs(path)) : path \in PathValues }
  \cup { DecodedFunction("swapExactTokensForTokens",
                         << Input("param0", Str("1000")), Input("param1", Str("1")),
                            Input("param2", Arr(<<Str(UnknownAddress), Str(Usdt)>>)) >>),
         DecodedFunction("swapExactETHForTokens",
                         << Input("amountOutMin", Str("1")),
                            Input("path", Arr(<<Str(WETH), Str(Usdt)>>)) >>),
         DecodedFunction("swapTokensForExactETH",
                         << Input("amountOut", Str("5")),
                            Input("path", Arr(<<Str(UnknownAddress), Str(WETH)>>)) >>),
         DecodedFunction("addLiquidity", <<>>),
         DecodedFunction("removeLiquidity", <<>>),
         DecodedFunction("createPair", <<>>),
         DecodedFunction("transfer", << Input("to", Str("0xbb")) >>) }

RootCalls ==
  { DefiCall(to, success, fn, "0x0", <<>>) :
      to \in Targets, success \in BOOLEAN, fn \in DecodedFunctions }

\* The calls below the root: a few leaves, and one call with a call below it.
InnerCalls ==
  { DefiCall(Router, TRUE,
             DecodedFunction("swapExactTokensForTokens",
                             SwapInputs(Arr(<<Str(UnknownAddress), Str(Usdt)>>))),
             "0x0", <<>>),
    DefiCall("0xbb", TRUE,
             DecodedFunction("swapExactTokensForTokens",
                             SwapInputs(Arr(<<Null, Str(Usdt)>>))),
             "0x0", <<>>),
    DefiCall("0xbb", TRUE, DecodedFunction("removeLiquidity", <<>>), "0x0", <<>>),
    DefiCall("0xbb", TRUE, NoFunction, "0x0", <<>>),
    DefiCall("0xbb", TRUE, DecodedFunction("transfer", << Input("to", Str("0xbb")) >>),
             "0x0",
             << DefiCall("0x5c69bee701ef814a2b6a3edd4b1652cb9cc5aa6f", TRUE,
                         DecodedFunction("createPair", <<>>), "0x0", <<>>) >>) }

MaxSubcalls == 2   \* subcalls of the root call
MaxAnalyses == 2   \* analyzeTrace calls on one detector

NoDefiTrace == [rootCall |-> DefiCall("", TRUE, NoFunction, "0x0", <<>>)]

DefiTraces ==
  { [rootCall |-> [root EXCEPT !.subcalls = subcalls]] :
      root \in RootCalls, subcalls \in SeqsUpTo(InnerCalls, MaxSubcalls) }

\* What the reads of an unknown token give during one analysis.
DefiReads ==
  { [name |-> "", symbol |-> "", decimals |-> 18],
    [name |-> "Token", symbol |-> "TKN", decimals |-> 6] }

\* analyzeTrace(trace) on a detector built with or without a token service.
AnalyzeTrace ==
  /\ defiAnalyses < MaxAnalyses
  /\ \E reads \in DefiReads :
       \E r \in { DetectInteractions(defiTrace, defiService, tokenCache, reads) } :
         /\ defiAnalysis' = AnalysisOf(r)
         /\ defiVisits' = r.visits
         /\ tokenCache' = r.cache
  /\ defiAnalyses' = defiAnalyses + 1
  /\ UNCHANGED <<defiTrace, defiService, tokenCalls, resolutions, cachedLookup>>

(***************************************************************************)
(* TraceFormatter.formatParameterValue.  A JavaScript string is the        *)
(* sequence of its characters; a decimal string is a sequence of the       *)
(* characters "0" to "9".                                                  *)
(***************************************************************************)
DigitChars == <<"0", "1", "2", "3", "4", "5", "6", "7", "8", "9">>
ToDigit(n) == DigitChars[n + 1]
FromDigit(c) == (CHOOSE i \in 1..10 : DigitChars[i] = c) - 1
IsDigit(c) == \E i \in 1..10 : DigitChars[i] = c

\* Integers too wide for one machine word are kept as sequences of limbs in
\* base 10000, most significant first; the empty sequence stands for 0.
LimbBase == 10000

\* The limbs of value * m + carry, for the limbs of value.
RECURSIVE MulAdd(_, _, _)
MulAdd(limbs, m, carry) ==
  IF Len(limbs) = 0
  THEN IF carry = 0 THEN <<>>
       ELSE The({ Append(MulAdd(<<>>, m, c), carry % LimbBase) : c \in {carry \div LimbBase} })
  ELSE The({ Append(MulAdd(rest, m, t \div LimbBase), t % LimbBase) :
               rest \in {SubSeq(limbs, 1, Len(limbs) - 1)},
               t \in {limbs[Len(limbs)] * m + carry} })

\* The unsigned integer a big-endian word encodes, two bytes at a time.
RECURSIVE WordLimbs(_)
WordLimbs(bytes) ==
  IF Len(bytes) = 0 THEN <<>>
  ELSE IF Len(bytes) = 1 THEN MulAdd(<<>>, 1, bytes[1])
  ELSE The({ MulAdd(high, 65536, bytes[Len(bytes) - 1] * 256 + bytes[Len(bytes)]) :
               high \in {WordLimbs(SubSeq(bytes, 1, Len(bytes) - 2))} })

RECURSIVE TrimLeadingZeros(_)
TrimLeadingZeros(str) ==
  IF Len(str) > 1 /\ str[1] = "0" THEN TrimLeadingZeros(Tail(str)) ELSE str

\* The four decimal digits of a limb.
LimbChars(n) ==
  <<ToDigit(n \div 1000), ToDigit((n \div 100) % 10), ToDigit((n \div 10) % 10),
    ToDigit(n % 10)>>

\* BigInt.prototype.toString(): the decimal string of the integer of a word
BigIntToString(bytes) ==
  The({ IF limbs = <<>> THEN <<"0">>
        ELSE TrimLeadingZeros(Flatten([i \in 1..Len(limbs) |-> LimbChars(limbs[i])])) :
          limbs \in {WordLimbs(bytes)} })

\* The two literals the unlimited test compares with.
UnlimitedLiteral ==
  <<"1", "1", "5", "7", "9", "2", "0", "8", "9", "2", "3", "7", "3", "1", "6", "1",
    "9", "5", "4", "2", "3", "5", "7", "0", "9", "8", "5", "0", "0", "8", "6", "8",
    "7", "9", "0", "7", "8", "5", "3", "2", "6", "9", "9", "8", "4", "6", "6", "5",
    "6", "4", "0", "5", "6", "4", "0", "3", "9", "4", "5", "7", "5", "8", "4", "0",
    "0", "7", "9", "1", "3", "1", "2", "9", "6", "3", "9", "9", "3", "5">>
UnlimitedLiteralOther ==
  <<"1", "1", "5", "7", "9", "2", "0", "8", "9", "2", "3", "7", "3", "1", "6", "1",
    "9", "5", "4", "2", "3", "5", "7", "0", "9", "8", "5", "0", "0", "8", "6", "8",
    "7", "9", "0", "7", "8", "5", "3", "2", "6", "9", "9", "8", "4", "6", "6", "5",
    "6", "4", "0", "5", "6", "4", "0", "3", "9", "4", "5", "7", "5", "8", "4", "0",
    "0", "7", "7", "2", "7", "4", "4", "8", "8", "6", "9", "9", "3", "5">>

\* type.startsWith(prefix), on the types of the model
TypeStartsWith(type, prefix) ==
  CASE prefix = "uint" -> type \in {"uint256", "uint8", "uint256[]"}
    [] prefix = "int" -> type \in {"int256"}
    [] prefix = "bytes" -> type \in {"bytes", "bytes32"}
    [] OTHER -> FALSE

\* What formatParameterValue returned: the kind of rendering, the text it is
\* made of (int '.' frac, or head '...' tail) and the dimmed note or symbol.
Rendered(kind, int, frac, note) == [kind |-> kind, int |-> int, frac |-> frac, note |-> note]
NoRendering == Rendered("none", <<>>, <<>>, "")
Unlimited == Rendered("unlimited", <<>>, <<>>, "")
Thrown == Rendered("throw", <<>>, <<>>, "SyntaxError")

\* BigInt(num) accepts num: a decimal string (the empty string is 0).
IsDecimal(num) == \A i \in 1..Len(num) : IsDigit(num[i])

RECURSIVE TrimTrailingZeros(_)
TrimTrailingZeros(str) ==
  IF Len(str) > 0 /\ str[Len(str)] = "0"
  THEN TrimTrailingZeros(SubSeq(str, 1, Len(str) - 1))
  ELSE str

\* formatTokenAmount(value, decimals) on the decimal string of value:
\* dividing by 10 ** decimals splits the digits.  frac is empty when the
\* result has no '.'.
FormatTokenAmount(num, decimals) ==
  LET value == TrimLeadingZeros(IF num = <<>> THEN <<"0">> ELSE num)
      quotient == IF Len(value) > decimals
                  THEN SubSeq(value, 1, Len(value) - decimals) ELSE <<"0">>
      remainderStr == IF Len(value) >= decimals
                      THEN SubSeq(value, Len(value) - decimals + 1, Len(value))
                      ELSE [i \in 1..(decimals - Len(value)) |-> "0"] \o value
  IN [int |-> quotient, frac |-> TrimTrailingZeros(remainderStr)]

\* parseFloat(formatted) > 0.001, compared exactly
AboveThousandth(formatted) ==
  \/ formatted.int # <<"0">>
  \/ LET frac == formatted.frac \o <<"0", "0", "0">>
     IN \/ frac[1] # "0" \/ frac[2] # "0" \/ FromDigit(frac[3]) > 1
        \/ (frac[3] = "1" /\ Len(formatted.frac) > 3)

\* parseFloat(formatted) >= 1 and parseFloat(formatted) < 1000000
AtLeastOne(formatted) == formatted.int # <<"0">>
BelowMillion(formatted) == Len(formatted.int) <= 6

\* shortenAddress
ShortenAddress(address) ==
  IF Len(address) < 10 THEN Rendered("plain", address, <<>>, "")
  ELSE Rendered("short", SubSeq(address, 1, 6), SubSeq(address, Len(address) - 3, Len(address)),
                "")

\* The branch of the integer types after the unlimited test: the token
\* context, then the generic formatting.
FormatInteger(num, contractAddress, hasService, cache) ==
  IF contractAddress # Absent /\ contractAddress # "" /\ hasService
     /\ CachedEntry(cache, contractAddress) # NoToken /\ IsDecimal(num)
  THEN LET tokenInfo == CachedEntry(cache, contractAddress)
           amount == FormatTokenAmount(num, tokenInfo.decimals)
       IN Rendered("token", amount.int, amount.frac, tokenInfo.symbol)
  ELSE IF ~IsDecimal(num) THEN Thrown
  ELSE LET formatted18 == FormatTokenAmount(num, 18)
           formatted6 == FormatTokenAmount(num, 6)
           formatted5 == FormatTokenAmount(num, 5)
       IN IF Len(num) > 15 /\ formatted5.frac # <<>> /\ AboveThousandth(formatted5)
          THEN Rendered("amount", formatted5.int, formatted5.frac, "(5 decimals)")
          ELSE IF Len(num) > 15 /\ formatted6.frac # <<>> /\ AboveThousandth(formatted6)
          THEN Rendered("amount", formatted6.int, formatted6.frac, "(6 decimals)")
          ELSE IF Len(num) > 15 /\ formatted18.frac # <<>> /\ AboveThousandth(formatted18)
          THEN Rendered("amount", formatted18.int, formatted18.frac, "(18 decimals)")
          ELSE IF Len(num) >= 10 /\ Len(num) <= 15 /\ AtLeastOne(formatted5)
                  /\ BelowMillion(formatted5)
          THEN Rendered("amount", formatted5.int, formatted5.frac, "tokens")
          ELSE IF Len(num) >= 10 /\ Len(num) <= 15 /\ AtLeastOne(formatted6)
                  /\ BelowMillion(formatted6)
          THEN Rendered("amount", formatted6.int, formatted6.frac, "tokens")
          ELSE IF Len(num) >= 10 /\ Len(num) <= 15 /\ AtLeastOne(formatted18)
          THEN Rendered("amount", formatted18.int, formatted18.frac, "tokens")
          \* parseInt(num).toLocaleString(): the digits in groups of three,
          \* exact for the integers a double holds exactly
          ELSE IF Len(num) > 6
          THEN Rendered("grouped", TrimLeadingZeros(num), <<>>, "")
          ELSE Rendered("plain", num, <<>>, "")

\* The unlimited test against the second literal only.
IsUnlimitedOtherOnly(num) == num = UnlimitedLiteralOther

\* num === '1157...9935' || num === '1157...9935'
IsUnlimited(num) == num = UnlimitedLiteral \/ num = UnlimitedLiteralOther

\* value.toString() and the truthiness of value, for a string or a boolean
ValueToString(value) ==
  IF value.k = "bool"
  THEN IF value.v THEN <<"t", "r", "u", "e">> ELSE <<"f", "a", "l", "s", "e">>
  ELSE value.v
ValueTruthy(value) == IF value.k = "bool" THEN value.v ELSE Len(value.v) > 0

\* formatParameterValue(value, type, contractAddress)
FormatParameterValue(value, type, contractAddress, hasService, cache) ==
  IF type = "address" THEN ShortenAddress(ValueToString(value))
  ELSE IF TypeStartsWith(type, "uint") \/ TypeStartsWith(type, "int")
  THEN IF IsUnlimited(ValueToString(value)) THEN Unlimited
       ELSE FormatInteger(ValueToString(value), contractAddress, hasService, cache)
  ELSE IF type = "bool"
  THEN Rendered("plain", IF ValueTruthy(value) THEN <<"t", "r", "u", "e">>
                         ELSE <<"f", "a", "l", "s", "e">>, <<>>, "")
  ELSE IF TypeStartsWith(type, "bytes")
  THEN IF Len(ValueToString(value)) > 20
       THEN Rendered("short", SubSeq(ValueToString(value), 1, 10),
                     SubSeq(ValueToString(value), Len(ValueToString(value)) - 5,
                            Len(ValueToString(value))), "")
       ELSE Rendered("plain", ValueToString(value), <<>>, "")
  ELSE IF Len(ValueToString(value)) > 50
  THEN Rendered("short", SubSeq(ValueToString(value), 1, 25),
                SubSeq(ValueToString(value), Len(ValueToString(value)) - 9,
                       Len(ValueToString(value))), "")
  ELSE Rendered("plain", ValueToString(value), <<>>, "")

\* ---- the parameters formatted
\* The 32-byte word that ends with the given bytes.
WordOf(tail) == [i \in 1..(WordBytes - Len(tail)) |-> 0] \o tail
MaxWord == [i \in 1..WordBytes |-> 255]

HexDigitChars ==
  <<"0", "1", "2", "3", "4", "5", "6", "7", "8", "9", "a", "b", "c", "d", "e", "f">>
RECURSIVE HexChars(_)
HexChars(bytes) ==
  IF Len(bytes) = 0 THEN <<"0", "x">>
  ELSE HexChars(SubSeq(bytes, 1, Len(bytes) - 1))
       \o <<HexDigitChars[(bytes[Len(bytes)] \div 16) + 1],
            HexDigitChars[(bytes[Len(bytes)] % 16) + 1]>>

StringValue(chars) == [k |-> "str", v |-> chars]
BoolValue(b) == [k |-> "bool", v |-> b]
Parameter(value, type) == [value |-> value, type |-> type]
NoParameter == Parameter(StringValue(<<>>), "")

\* uint256 words as ethers decodes them and the parser's formatValue turns
\* them into decimal strings: 2^256 - 1 and its neighbour, the integer of
\* the second literal, 0, 1, 255, 1234567, 12345678901, 10^18 and 1.5 * 10^18.
IntegerWords ==
  { MaxWord, [MaxWord EXCEPT ![WordBytes] = 254],
    [i \in 1..27 |-> 255] \o <<212, 196, 144, 76, 47>>,
    WordOf(<<>>), WordOf(<<1>>), WordOf(<<255>>), WordOf(<<18, 214, 135>>),
    WordOf(<<2, 223, 220, 28, 53>>), WordOf(<<13, 224, 182, 179, 167, 100, 0, 0>>),
    WordOf(<<20, 209, 18, 13, 123, 22, 0, 0>>) }

Parameters ==
  { Parameter(StringValue(BigIntToString(w)), t) :
      w \in IntegerWords, t \in {"uint256", "int256"} }
  \cup { Parameter(StringValue(<<"1", ",", "2">>), "uint256[]"),
         Parameter(StringValue(HexChars([i \in 1..20 |-> 17 * (i % 16)])), "address"),
         Parameter(BoolValue(TRUE), "bool"), Parameter(BoolValue(FALSE), "bool"),
         Parameter(StringValue(HexChars(<<18, 52>>)), "bytes"),
         Parameter(StringValue(HexChars(MaxWord)), "bytes32"),
         Parameter(StringValue(<<"h", "e", "l", "l", "o">>), "string"),
         Parameter(StringValue([i \in 1..60 |-> "a"]), "string") }

ContractAddresses == {Absent, Usdt, WETH, UnknownAddress}

\* One parameter of a decoded call or event rendered by the formatter.
FormatParameter ==
  /\ fmtOutput = NoRendering
  /\ fmtOutput' = FormatParameterValue(fmtInput.value, fmtInput.type, fmtContract,
                                       fmtService, tokenCache)
  /\ UNCHANGED <<fmtInput, fmtContract, fmtService>>

(***************************************************************************)
(* inspectCommand.  One action per stretch of code between two awaits; the *)
(* outcome of each awaited call is an input.  inspectEvents lists, in      *)
(* order, what the run wrote and which parser calls completed.             *)
(***************************************************************************)
MaxReceiptLogs == 3   \* logs of the receipt

InspectOptions(json, verbose) == [json |-> json, verbose |-> verbose]

\* What the catch of inspectCommand writes before process.exit(1).
ErrorLines(options, isAuraError) ==
  IF isAuraError
  THEN IF options.verbose THEN <<"error: message", "error: code">> ELSE <<"error: message">>
  ELSE IF options.verbose THEN <<"error: unexpected", "error: stack">>
  ELSE <<"error: unexpected">>

\* The progress line, written unless options.json is set.
Progress(options, line) == IF options.json THEN <<>> ELSE <<line>>

\* The catch of inspectCommand: the error lines, then process.exit(1).
Fail(isAuraError) ==
  /\ inspectEvents' = inspectEvents \o ErrorLines(inspectOptions, isAuraError)
  /\ inspectPc' = "exited"
  /\ inspectExit' = 1
  /\ UNCHANGED <<inspectOptions, inspectLogsLeft>>

\* parseLogs left out: the output follows the receipt at once.
AfterReceiptWithoutLogs(hasReceipt) == "output"

\* Where the run goes once the receipt is there: parseLogs is called when the
\* receipt and its logs are.
AfterReceipt(hasReceipt) == IF hasReceipt THEN "parseLogs" ELSE "output"

\* The lines that carry the parsed trace: the JSON text, or the lines of
\* formatTrace.
ParsedTraceOutput(options) ==
  IF options.json THEN <<"parsed trace: json">> ELSE <<"parsed trace: formatted">>

\* validateTransactionHash and the first progress lines, up to the await of
\* checkConnection.
InspectStart(validHash) ==
  /\ inspectPc = "start"
  /\ IF validHash
     THEN /\ inspectEvents' = inspectEvents
                                \o Progress(inspectOptions, "progress: inspecting")
                                \o Progress(inspectOptions, "progress: connecting")
          /\ inspectPc' = "checkConnection"
          /\ UNCHANGED <<inspectOptions, inspectLogsLeft, inspectExit>>
     ELSE Fail(TRUE)

\* checkConnection returned.
CheckConnection(isConnected) ==
  /\ inspectPc = "checkConnection"
  /\ IF isConnected
     THEN /\ inspectEvents' = inspectEvents
                                \o Progress(inspectOptions, "progress: connected")
                                \o Progress(inspectOptions, "progress: fetching")
          /\ inspectPc' = "getTransactionInfo"
          /\ UNCHANGED <<inspectOptions, inspectLogsLeft, inspectExit>>
     ELSE Fail(TRUE)

\* getTransactionInfo returned, or threw its AuraError.
GetTransactionInfo(found) ==
  /\ inspectPc = "getTransactionInfo"
  /\ IF found
     THEN /\ inspectPc' = "getTransactionTrace"
          /\ UNCHANGED <<inspectOptions, inspectEvents, inspectLogsLeft, inspectExit>>
     ELSE Fail(TRUE)

\* getTransactionTrace returned a trace, threw an error that says tracing is
\* not available, or threw another error, which is thrown again.
FetchTrace(outcome) ==
  /\ inspectPc = "getTransactionTrace"
  /\ CASE outcome = "trace" ->
            /\ inspectEvents' = inspectEvents
                                  \o Progress(inspectOptions, "progress: data retrieved")
            /\ inspectPc' = "parseTrace"
            /\ UNCHANGED <<inspectOptions, inspectLogsLeft, inspectExit>>
       [] outcome = "unavailable" ->
            /\ inspectEvents' = inspectEvents
                                  \o Progress(inspectOptions, "progress: trace not available")
                                  \o Progress(inspectOptions, "progress: data retrieved")
            /\ inspectPc' = "basic"
            /\ UNCHANGED <<inspectOptions, inspectLogsLeft, inspectExit>>
       [] OTHER -> Fail(outcome = "AuraError")

\* parser.parseTrace returned or threw.
InspectParseTrace(threw) ==
  /\ inspectPc = "parseTrace"
  /\ IF threw THEN Fail(FALSE)
     ELSE /\ inspectEvents' = Append(inspectEvents, "parseTrace completed")
          /\ inspectPc' = "getTransactionReceipt"
          /\ UNCHANGED <<inspectOptions, inspectLogsLeft, inspectExit>>

\* provider.getTransactionReceipt returned a receipt with logs, returned
\* null, or threw.
InspectReceipt(outcome, logs) ==
  /\ inspectPc = "getTransactionReceipt"
  /\ IF outcome = "throw" THEN Fail(FALSE)
     ELSE /\ inspectPc' = AfterReceipt(outcome = "receipt")
          /\ inspectLogsLeft' = IF outcome = "receipt" THEN logs ELSE -1
          /\ inspectEvents' = IF outcome = "receipt"
                              THEN Append(inspectEvents, "parseLogs called")
                              ELSE inspectEvents
          /\ UNCHANGED <<inspectOptions, inspectExit>>

\* parseLogs: the decoding of one log returned or threw; after the last log
\* parseLogs returns.
InspectParseLogs(threw) ==
  /\ inspectPc = "parseLogs"
  /\ IF inspectLogsLeft > 0
     THEN IF threw THEN Fail(FALSE)
          ELSE /\ inspectLogsLeft' = inspectLogsLeft - 1
               /\ UNCHANGED <<inspectOptions, inspectEvents, inspectPc, inspectExit>>
     ELSE /\ ~threw
          /\ inspectEvents' = Append(inspectEvents, "parseLogs completed")
          /\ inspectPc' = "output"
          /\ UNCHANGED <<inspectOptions, inspectLogsLeft, inspectExit>>

\* The output of the parsed trace and the explorer link, then the return.
\* JSON.stringify or formatTrace may throw before a line is written.
InspectOutput(threw) ==
  /\ inspectPc = "output"
  /\ IF threw
     THEN /\ inspectEvents' = inspectEvents
                                \o Progress(inspectOptions, "progress: trace parsed")
                                \o ErrorLines(inspectOptions, FALSE)
          /\ inspectPc' = "exited"
          /\ inspectExit' = 1
          /\ UNCHANGED <<inspectOptions, inspectLogsLeft>>
     ELSE /\ inspectEvents' = inspectEvents
                                \o Progress(inspectOptions, "progress: trace parsed")
                                \o ParsedTraceOutput(inspectOptions)
                                \o Progress(inspectOptions, "explorer link")
          /\ inspectPc' = "returned"
          /\ UNCHANGED <<inspectOptions, inspectLogsLeft, inspectExit>>

\* Without trace data: the basic transaction information, from the receipt.
InspectBasic(threw) ==
  /\ inspectPc = "basic"
  /\ IF threw THEN Fail(FALSE)
     ELSE /\ inspectEvents' = inspectEvents
                                \o (IF inspectOptions.json THEN <<"basic info: json">>
                                    ELSE <<"basic info: formatted">>)
                                \o Progress(inspectOptions, "explorer link")
          /\ inspectPc' = "returned"
          /\ UNCHANGED <<inspectOptions, inspectLogsLeft, inspectExit>>

(***************************************************************************)
(* The specifications.  Each runs one component; the variables of the      *)
(* others stay as constructed.                                             *)
(***************************************************************************)
\* The provider answered; nothing is normalized yet.
InitNorm ==
  /\ tracePayload \in Payloads
  /\ normOut = NoOutcome
  /\ normAgain = NoOutcome
  /\ normPc = "fetched"
  /\ signatureCache = SeededSignatureCache
  /\ eventCache = SeededEventCache
  /\ abiCall = NoAbiCall
  /\ abiResult = NoDecode
  /\ abiCalls = 0
  /\ rawTrace = RawTraceRecord(FALSE, <<>>)
  /\ receiptLogs = <<>>
  /\ parsedTrace = NoTrace
  /\ parsePc = "idle"
  /\ parseErr = ""
  /\ tokenCache = SeededTokenCache
  /\ tokenCalls = <<>>
  /\ resolutions = [key \in {ToLowerCase(a) : a \in TokenAddresses} |-> 0]
  /\ cachedLookup = NoLookup
  /\ defiTrace = NoDefiTrace
  /\ defiService = FALSE
  /\ defiAnalysis = NoAnalysis
  /\ defiAnalyses = 0
  /\ defiVisits = <<>>
  /\ fmtInput = NoParameter
  /\ fmtContract = Absent
  /\ fmtService = FALSE
  /\ fmtOutput = NoRendering
  /\ inspectOptions = InspectOptions(FALSE, FALSE)
  /\ inspectPc = "idle"
  /\ inspectEvents = <<>>
  /\ inspectLogsLeft = 0
  /\ inspectExit = 0

NextNorm ==
  \/ GetTransactionTrace /\ UNCHANGED <<abiVars, parseVars, tokenVars, defiVars, fmtVars, inspectVars>>
  \/ Renormalize /\ UNCHANGED <<abiVars, parseVars, tokenVars, defiVars, fmtVars, inspectVars>>

SpecNorm == InitNorm /\ [][NextNorm]_vars

\* A new ABIService: the caches as loadCommonABIs leaves them.
InitAbi ==
  /\ tracePayload = Null
  /\ normOut = NoOutcome
  /\ normAgain = NoOutcome
  /\ normPc = "idle"
  /\ signatureCache = SeededSignatureCache
  /\ eventCache = SeededEventCache
  /\ abiCall = NoAbiCall
  /\ abiResult = NoDecode
  /\ abiCalls = 0
  /\ rawTrace = RawTraceRecord(FALSE, <<>>)
  /\ receiptLogs = <<>>
  /\ parsedTrace = NoTrace
  /\ parsePc = "idle"
  /\ parseErr = ""
  /\ tokenCache = SeededTokenCache
  /\ tokenCalls = <<>>
  /\ resolutions = [key \in {ToLowerCase(a) : a \in TokenAddresses} |-> 0]
  /\ cachedLookup = NoLookup
  /\ defiTrace = NoDefiTrace
  /\ defiService = FALSE
  /\ defiAnalysis = NoAnalysis
  /\ defiAnalyses = 0
  /\ defiVisits = <<>>
  /\ fmtInput = NoParameter
  /\ fmtContract = Absent
  /\ fmtService = FALSE
  /\ fmtOutput = NoRendering
  /\ inspectOptions = InspectOptions(FALSE, FALSE)
  /\ inspectPc = "idle"
  /\ inspectEvents = <<>>
  /\ inspectLogsLeft = 0
  /\ inspectExit = 0

NextAbi ==
  \/ DecodeFunctionCallStep /\ UNCHANGED <<normVars, parseVars, tokenVars, defiVars, fmtVars, inspectVars>>
  \/ DecodeEventLogStep /\ UNCHANGED <<normVars, parseVars, tokenVars, defiVars, fmtVars, inspectVars>>

SpecAbi == InitAbi /\ [][NextAbi]_vars

\* A new TraceParser (with its new ABIService) and a raw trace to parse.
InitParse ==
  /\ tracePayload = Null
  /\ normOut = NoOutcome
  /\ normAgain = NoOutcome
  /\ normPc = "idle"
  /\ signatureCache = SeededSignatureCache
  /\ eventCache = SeededEventCache
  /\ abiCall = NoAbiCall
  /\ abiResult = NoDecode
  /\ abiCalls = 0
  /\ rawTrace \in RawTraces
  /\ receiptLogs = <<>>
  /\ parsedTrace = NoTrace
  /\ parsePc = "start"
  /\ parseErr = ""
  /\ tokenCache = SeededTokenCache
  /\ tokenCalls = <<>>
  /\ resolutions = [key \in {ToLowerCase(a) : a \in TokenAddresses} |-> 0]
  /\ cachedLookup = NoLookup
  /\ defiTrace = NoDefiTrace
  /\ defiService = FALSE
  /\ defiAnalysis = NoAnalysis
  /\ defiAnalyses = 0
  /\ defiVisits = <<>>
  /\ fmtInput = NoParameter
  /\ fmtContract = Absent
  /\ fmtService = FALSE
  /\ fmtOutput = NoRendering
  /\ inspectOptions = InspectOptions(FALSE, FALSE)
  /\ inspectPc = "idle"
  /\ inspectEvents = <<>>
  /\ inspectLogsLeft = 0
  /\ inspectExit = 0

\* The parser owns its ABIService: signatureCache and eventCache are its caches.
NextParse ==
  \/ ParseTraceFails
       /\ UNCHANGED <<normVars, tokenVars, defiVars, fmtVars, inspectVars, eventCache, abiCall, abiResult, abiCalls>>
  \/ ParseTrace
       /\ UNCHANGED <<normVars, tokenVars, defiVars, fmtVars, inspectVars, eventCache, abiCall, abiResult, abiCalls>>
  \/ ParseLogs
       /\ UNCHANGED <<normVars, tokenVars, defiVars, fmtVars, inspectVars, eventCache, abiCall, abiResult, abiCalls>>

SpecParse == InitParse /\ [][NextParse]_vars

\* A new TokenService: the cache as loadWellKnownTokens leaves it.
InitToken ==
  /\ tracePayload = Null
  /\ normOut = NoOutcome
  /\ normAgain = NoOutcome
  /\ normPc = "idle"
  /\ signatureCache = SeededSignatureCache
  /\ eventCache = SeededEventCache
  /\ abiCall = NoAbiCall
  /\ abiResult = NoDecode
  /\ abiCalls = 0
  /\ rawTrace = RawTraceRecord(FALSE, <<>>)
  /\ receiptLogs = <<>>
  /\ parsedTrace = NoTrace
  /\ parsePc = "idle"
  /\ parseErr = ""
  /\ tokenCache = SeededTokenCache
  /\ tokenCalls = <<>>
  /\ resolutions = [key \in {ToLowerCase(a) : a \in TokenAddresses} |-> 0]
  /\ cachedLookup = NoLookup
  /\ defiTrace = NoDefiTrace
  /\ defiService = FALSE
  /\ defiAnalysis = NoAnalysis
  /\ defiAnalyses = 0
  /\ defiVisits = <<>>
  /\ fmtInput = NoParameter
  /\ fmtContract = Absent
  /\ fmtService = FALSE
  /\ fmtOutput = NoRendering
  /\ inspectOptions = InspectOptions(FALSE, FALSE)
  /\ inspectPc = "idle"
  /\ inspectEvents = <<>>
  /\ inspectLogsLeft = 0
  /\ inspectExit = 0

\* getTokenInfo calls made one after the other: a call starts only when no
\* other is awaiting its reads.
NextToken ==
  \/ (NoneAwaiting /\ \E a \in TokenAddresses : GetTokenInfoStart(a))
       /\ UNCHANGED <<normVars, abiVars, parseVars, defiVars, fmtVars, inspectVars>>
  \/ (\E c \in 1..MaxTokenCalls, name \in NameReads, symbol \in SymbolReads,
         decimals \in DecimalsReads : GetTokenInfoFinish(c, name, symbol, decimals))
       /\ UNCHANGED <<normVars, abiVars, parseVars, defiVars, fmtVars, inspectVars>>
  \/ (\E a \in TokenAddresses : GetCachedTokenInfo(a))
       /\ UNCHANGED <<normVars, abiVars, parseVars, defiVars, fmtVars, inspectVars>>

SpecToken == InitToken /\ [][NextToken]_vars

\* getTokenInfo calls made without awaiting one another (Promise.all over
\* several addresses, two callers of one service): a call may start while
\* others are awaiting their reads, and the reads complete in any order.
NextTokenRace ==
  \/ (\E a \in TokenAddresses : GetTokenInfoStart(a))
       /\ UNCHANGED <<normVars, abiVars, parseVars, defiVars, fmtVars, inspectVars>>
  \/ (\E c \in 1..MaxTokenCalls, name \in NameReads, symbol \in SymbolReads,
         decimals \in DecimalsReads : GetTokenInfoFinish(c, name, symbol, decimals))
       /\ UNCHANGED <<normVars, abiVars, parseVars, defiVars, fmtVars, inspectVars>>

SpecTokenRace == InitToken /\ [][NextTokenRace]_vars

\* A new DefiDetector, with or without a new TokenService, and a parsed
\* trace to analyse.
InitDefi ==
  /\ tracePayload = Null
  /\ normOut = NoOutcome
  /\ normAgain = NoOutcome
  /\ normPc = "idle"
  /\ signatureCache = SeededSignatureCache
  /\ eventCache = SeededEventCache
  /\ abiCall = NoAbiCall
  /\ abiResult = NoDecode
  /\ abiCalls = 0
  /\ rawTrace = RawTraceRecord(FALSE, <<>>)
  /\ receiptLogs = <<>>
  /\ parsedTrace = NoTrace
  /\ parsePc = "idle"
  /\ parseErr = ""
  /\ tokenCache = SeededTokenCache
  /\ tokenCalls = <<>>
  /\ resolutions = [key \in {ToLowerCase(a) : a \in TokenAddresses} |-> 0]
  /\ cachedLookup = NoLookup
  /\ defiTrace \in DefiTraces
  /\ defiService \in BOOLEAN
  /\ defiAnalysis = NoAnalysis
  /\ defiAnalyses = 0
  /\ defiVisits = <<>>
  /\ fmtInput = NoParameter
  /\ fmtContract = Absent
  /\ fmtService = FALSE
  /\ fmtOutput = NoRendering
  /\ inspectOptions = InspectOptions(FALSE, FALSE)
  /\ inspectPc = "idle"
  /\ inspectEvents = <<>>
  /\ inspectLogsLeft = 0
  /\ inspectExit = 0

NextDefi ==
  \/ AnalyzeTrace /\ UNCHANGED <<normVars, abiVars, parseVars, fmtVars, inspectVars>>

SpecDefi == InitDefi /\ [][NextDefi]_vars

\* A TraceFormatter, with or without a new TokenService, and a parameter of
\* a decoded call or event of some contract.
InitFormat ==
  /\ tracePayload = Null
  /\ normOut = NoOutcome
  /\ normAgain = NoOutcome
  /\ normPc = "idle"
  /\ signatureCache = SeededSignatureCache
  /\ eventCache = SeededEventCache
  /\ abiCall = NoAbiCall
  /\ abiResult = NoDecode
  /\ abiCalls = 0
  /\ rawTrace = RawTraceRecord(FALSE, <<>>)
  /\ receiptLogs = <<>>
  /\ parsedTrace = NoTrace
  /\ parsePc = "idle"
  /\ parseErr = ""
  /\ tokenCache = SeededTokenCache
  /\ tokenCalls = <<>>
  /\ resolutions = [key \in {ToLowerCase(a) : a \in TokenAddresses} |-> 0]
  /\ cachedLookup = NoLookup
  /\ defiTrace = NoDefiTrace
  /\ defiService = FALSE
  /\ defiAnalysis = NoAnalysis
  /\ defiAnalyses = 0
  /\ defiVisits = <<>>
  /\ fmtInput \in Parameters
  /\ fmtContract \in ContractAddresses
  /\ fmtService \in BOOLEAN
  /\ fmtOutput = NoRendering
  /\ inspectOptions = InspectOptions(FALSE, FALSE)
  /\ inspectPc = "idle"
  /\ inspectEvents = <<>>
  /\ inspectLogsLeft = 0
  /\ inspectExit = 0

NextFormat ==
  \/ FormatParameter
       /\ UNCHANGED <<normVars, abiVars, parseVars, tokenVars, defiVars, inspectVars>>

SpecFormat == InitFormat /\ [][NextFormat]_vars

\* inspectCommand was called with a transaction hash and options.
InitInspect ==
  /\ tracePayload = Null
  /\ normOut = NoOutcome
  /\ normAgain = NoOutcome
  /\ normPc = "idle"
  /\ signatureCache = SeededSignatureCache
  /\ eventCache = SeededEventCache
  /\ abiCall = NoAbiCall
  /\ abiResult = NoDecode
  /\ abiCalls = 0
  /\ rawTrace = RawTraceRecord(FALSE, <<>>)
  /\ receiptLogs = <<>>
  /\ parsedTrace = NoTrace
  /\ parsePc = "idle"
  /\ parseErr = ""
  /\ tokenCache = SeededTokenCache
  /\ tokenCalls = <<>>
  /\ resolutions = [key \in {ToLowerCase(a) : a \in TokenAddresses} |-> 0]
  /\ cachedLookup = NoLookup
  /\ defiTrace = NoDefiTrace
  /\ defiService = FALSE
  /\ defiAnalysis = NoAnalysis
  /\ defiAnalyses = 0
  /\ defiVisits = <<>>
  /\ fmtInput = NoParameter
  /\ fmtContract = Absent
  /\ fmtService = FALSE
  /\ fmtOutput = NoRendering
  /\ inspectOptions \in {InspectOptions(j, v) : j \in BOOLEAN, v \in BOOLEAN}
  /\ inspectPc = "start"
  /\ inspectEvents = <<>>
  /\ inspectLogsLeft = 0
  /\ inspectExit = 0

InspectUnchanged == UNCHANGED <<normVars, abiVars, parseVars, tokenVars, defiVars, fmtVars>>

NextInspect ==
  \/ (\E validHash \in BOOLEAN : InspectStart(validHash)) /\ InspectUnchanged
  \/ (\E isConnected \in BOOLEAN : CheckConnection(isConnected)) /\ InspectUnchanged
  \/ (\E found \in BOOLEAN : GetTransactionInfo(found)) /\ InspectUnchanged
  \/ (\E outcome \in {"trace", "unavailable", "AuraError", "Error"} : FetchTrace(outcome))
       /\ InspectUnchanged
  \/ (\E threw \in BOOLEAN : InspectParseTrace(threw)) /\ InspectUnchanged
  \/ (\E outcome \in {"receipt", "null", "throw"}, logs \in 0..MaxReceiptLogs :
         InspectReceipt(outcome, logs)) /\ InspectUnchanged
  \/ (\E threw \in BOOLEAN : InspectParseLogs(threw)) /\ InspectUnchanged
  \/ (\E threw \in BOOLEAN : InspectOutput(threw)) /\ InspectUnchanged
  \/ (\E threw \in BOOLEAN : InspectBasic(threw)) /\ InspectUnchanged

SpecInspect == InitInspect /\ [][NextInspect]_vars

(***************************************************************************)
(* Properties of the normalizer (SpecNorm)                                 *)
(***************************************************************************)
\* The four shapes of section 4.1, read off a payload.
IsSingleCall(p) ==
  Truthy(Get(p, "type")) /\ Truthy(Get(p, "from")) /\ Truthy(Get(p, "to"))
IsResultWrapper(p) == Truthy(Get(p, "result"))
IsArray(p) == p.k = "arr"
HasCallsOrLogs(p) == Truthy(Get(p, "calls")) \/ Truthy(Get(p, "logs"))
IsRecognizedShape(p) ==
  IsSingleCall(p) \/ IsResultWrapper(p) \/ IsArray(p) \/ HasCallsOrLogs(p)

\* C6: normalization is idempotent: whenever normalizeTrace accepted the
\* payload, normalizing its output again succeeds and yields the same calls
\* list and the same gasUsed.
C6_NormalizeIdempotent ==
  normPc = "renormalized" =>
    /\ normAgain.ok
    /\ Get(normAgain.val, "calls") = Get(normOut.val, "calls")
    /\ Get(normAgain.val, "gasUsed") = Get(normOut.val, "gasUsed")

\* C6 witness: a result wrapper around an array was normalized twice, and the
\* calls list it produced is not the payload itself.
C6_Witness ==
  /\ normPc = "renormalized"
  /\ IsResultWrapper(tracePayload) /\ ~IsSingleCall(tracePayload)
  /\ IsArray(Get(tracePayload, "result"))
  /\ normAgain.ok
  /\ Len(Get(normAgain.val, "calls").v) = 1

\* C7: a payload that matches none of the four recognized shapes makes
\* normalizeTrace fail with the invalid-trace-format error; no trace is returned.
C7_UnrecognizedShapeFails ==
  (normPc # "fetched" /\ Truthy(tracePayload) /\ ~IsRecognizedShape(tracePayload)) =>
    (~normOut.ok /\ normOut.err = "INVALID_TRACE_FORMAT" /\ normOut.val = Undef)

\* C7 witness: a creation call without a target and without calls or logs was
\* rejected.
C7_Witness ==
  /\ normPc = "normalized"
  /\ tracePayload.k = "obj"
  /\ Truthy(Get(tracePayload, "type")) /\ ~Truthy(Get(tracePayload, "to"))
  /\ ~IsRecognizedShape(tracePayload)
  /\ normOut.err = "INVALID_TRACE_FORMAT"

\* C8: for a payload {result: R} that is not itself a single call, the output
\* of normalizeTrace equals normalizeTrace(R), for every R of a recognized shape.
C8_ResultUnwrapsAndRecurses ==
  (/\ normPc # "fetched"
   /\ Truthy(tracePayload)
   /\ ~IsSingleCall(tracePayload)
   /\ IsResultWrapper(tracePayload)
   /\ IsRecognizedShape(Get(tracePayload, "result")))
  => normOut = NormalizeTrace(Get(tracePayload, "result"))

(***************************************************************************)
(* Properties of the call tree builder (SpecParse)                         *)
(***************************************************************************)
RECURSIVE DepthsConsistent(_)
DepthsConsistent(call) ==
  \A i \in 1..Len(call.subcalls) :
    /\ call.subcalls[i].depth = call.depth + 1
    /\ DepthsConsistent(call.subcalls[i])

\* C1: in every call tree parseTrace produces, the root has depth 0 and
\* every subcall has the depth of its parent plus one.
C1_DepthInvariant ==
  parsedTrace.has =>
    (parsedTrace.rootCall.depth = 0 /\ DepthsConsistent(parsedTrace.rootCall))

\* C1 witness: a parsed tree with a call at depth 2.
C1_Witness ==
  /\ parsedTrace.has
  /\ \E i \in 1..Len(parsedTrace.rootCall.subcalls) :
       \E j \in 1..Len(parsedTrace.rootCall.subcalls[i].subcalls) :
         parsedTrace.rootCall.subcalls[i].subcalls[j].depth = 2

\* C2: after parseTrace and parseLogs over a receipt with n logs,
\* ParsedTrace.events is the flattened list of the events of the tree and
\* has length n.
C2_EventsAreFlattenedLogs ==
  parsePc = "logged" =>
    /\ Len(parsedTrace.events) = Len(receiptLogs)
    /\ parsedTrace.events = ExtractAllEvents(parsedTrace.rootCall)

\* The raw call the root ParsedCall was built from.
RootRaw == rawTrace.calls[1]
RootErrored == parsedTrace.has /\ RootRaw.error \notin {Absent, ""}
StartsWithRevertSelector(output) ==
  output.has /\ HexPrefix(output.bytes, SelectorHexLen) = RevertSelector
               /\ Len(output.bytes) >= Len(RevertSelector)

\* C3: a call whose error is set and whose output does not start with
\* 0x08c379a0 is parsed to success = false and revertReason = the raw output.
C3_NonStandardOutputIsReason ==
  (RootErrored /\ RootRaw.output.has /\ ~StartsWithRevertSelector(RootRaw.output)) =>
    /\ parsedTrace.rootCall.success = FALSE
    /\ parsedTrace.rootCall.revertReason = RawReason(RootRaw.output.bytes)

\* C4: for an errored call whose output starts with 0x08c379a0, revertReason
\* is the decoded string when the trailing bytes decode as one, and the raw
\* output when they do not.
C4_StandardOutputDecodedOrRaw ==
  (RootErrored /\ StartsWithRevertSelector(RootRaw.output)) =>
    LET decoded == DecodeAbiString(HexDrop(RootRaw.output.bytes, SelectorHexLen))
    IN parsedTrace.rootCall.revertReason =
         IF decoded.ok THEN TextReason(decoded.text)
         ELSE RawReason(RootRaw.output.bytes)

\* C5: parseTrace on a trace whose call list is missing or empty fails with
\* the 'no trace data' error and produces no ParsedTrace.
C5_EmptyTraceFails ==
  (parsePc \notin {"start", "idle"} /\ (~rawTrace.hasCalls \/ rawTrace.calls = <<>>)) =>
    /\ parsePc = "failed"
    /\ parseErr = "No trace data to parse"
    /\ ~parsedTrace.has

\* C5 witness: parseTrace failed on a trace whose calls list is present and empty.
C5_Witness ==
  /\ parsePc = "failed"
  /\ rawTrace.hasCalls /\ rawTrace.calls = <<>>
  /\ parseErr = "No trace data to parse"

(***************************************************************************)
(* Properties of the signature decoder (SpecAbi)                           *)
(***************************************************************************)
\* C9: decodeFunctionCall never throws; it returns none, or a
\* DecodedFunction with as many inputs as the schema resolved for the
\* selector has parameters.
C9_DecodeOrNone ==
  abiCall.op = "function" =>
    /\ abiResult.kind \in {"none", "decoded"}
    /\ abiResult.kind = "decoded" =>
         /\ HexPrefix(abiCall.input, SelectorHexLen) \in DOMAIN signatureCache
         /\ Len(abiResult.inputs) =
              Len(signatureCache[HexPrefix(abiCall.input, SelectorHexLen)].inputs)

\* C9 witness: the registry was asked, its first result was skipped, and the
\* call was decoded against the three-parameter schema of the second.
C9_Witness ==
  /\ abiCall.op = "function"
  /\ abiCall.queried
  /\ Len(abiCall.response.results) = 2
  /\ abiResult.kind = "decoded"
  /\ Len(abiResult.inputs) = 3

\* C22: decodeEventLog returns a DecodedEvent only for a log whose first
\* topic is a key of the event cache, and no decodeFunctionCall or
\* decodeEventLog call adds, changes or removes an entry of the event cache:
\* it stays the Transfer and Approval entries the constructor stored.
C22_EventCacheOnly ==
  /\ eventCache = SeededEventCache
  /\ DOMAIN eventCache = {TopicTransfer, TopicApproval}
  /\ (abiCall.op = "event" /\ abiResult.kind = "decoded") =>
       /\ Len(abiCall.log.topics) > 0
       /\ abiCall.log.topics[1] \in DOMAIN eventCache

\* After a decodeFunctionCall that cached a schema the registry gave, a
\* decodeEventLog call decoded a Transfer log.
C22_Witness ==
  /\ abiCalls = 2
  /\ signatureCache # SeededSignatureCache
  /\ abiCall.op = "event"
  /\ abiResult.kind = "decoded"
  /\ abiResult.name = "Transfer"
  /\ eventCache = SeededEventCache

\* A log whose first topic is not in the event cache was handed to
\* decodeEventLog, which returned none.
C22_WitnessMiss ==
  /\ abiCall.op = "event"
  /\ Len(abiCall.log.topics) > 0
  /\ abiCall.log.topics[1] \notin DOMAIN eventCache
  /\ abiResult = NoDecode

\* The text signatures of the registry answers that are registry spam, have
\* no parameter list, or have a parameter without a type.
RejectedTexts == {SigSpam, SigNoParens, SigEmptyParam}

AskedSelector == HexPrefix(abiCall.input, SelectorHexLen)

\* The registry was asked and answered with text signatures.
AnsweredWithCandidates ==
  /\ abiCall.op = "function"
  /\ abiCall.queried
  /\ abiCall.response.kind = "json" /\ abiCall.response.hasResults
  /\ Len(abiCall.response.results) > 0
  /\ \A i \in 1..Len(abiCall.response.results) : abiCall.response.results[i].hasText

AcceptableResults ==
  { i \in 1..Len(abiCall.response.results) :
      abiCall.response.results[i].text \notin RejectedTexts }

FirstAcceptable == CHOOSE i \in AcceptableResults : \A j \in AcceptableResults : i <= j

C29_WitnessCached ==
  /\ abiCalls = 2
  /\ abiCall.op = "function"
  /\ ~abiCall.queried
  /\ HexLen(abiCall.input) >= SelectorHexLen
  /\ AskedSelector \in DOMAIN signatureCache \ DOMAIN SeededSignatureCache
  /\ abiResult.kind = "decoded"

(***************************************************************************)
(* Properties of the token metadata resolver (SpecToken)                   *)
(***************************************************************************)
SameToken(i, j) ==
  ToLowerCase(tokenCalls[i].address) = ToLowerCase(tokenCalls[j].address)
CallPairs ==
  { p \in (1..Len(tokenCalls)) \X (1..Len(tokenCalls)) :
      /\ p[1] < p[2]
      /\ SameToken(p[1], p[2])
      /\ tokenCalls[p[1]].state = "done" /\ tokenCalls[p[2]].state = "done" }

\* C10 as stated: two getTokenInfo calls for the same address, one after
\* the other, perform the external resolution at most once in total,
\* whatever the reads returned.
C10_ResolvedAtMostOnce ==
  \A p \in CallPairs : ~(tokenCalls[p[1]].resolved /\ tokenCalls[p[2]].resolved)

\* C10 amended: of two getTokenInfo calls for the same address, one after
\* the other, the second performs no external resolution when the first
\* returned a token.
C10_ResolvedAtMostOnceAfterSuccess ==
  \A p \in CallPairs :
    tokenCalls[p[1]].result # NoToken => ~tokenCalls[p[2]].resolved

\* C10 witness: a first call resolved the address externally and returned a
\* token; a second call, spelling the address differently, returned the
\* same token without resolving.
C10_Witness ==
  \E p \in CallPairs :
    /\ tokenCalls[p[1]].resolved
    /\ tokenCalls[p[1]].result # NoToken
    /\ tokenCalls[p[1]].address # tokenCalls[p[2]].address
    /\ ~tokenCalls[p[2]].resolved
    /\ tokenCalls[p[2]].result = tokenCalls[p[1]].result

\* The addresses loadWellKnownTokens stores, compared as the cache compares them.
IsWellKnown(address) ==
  \E i \in 1..Len(WellKnownTokens) :
    ToLowerCase(WellKnownTokens[i].address) = ToLowerCase(address)

\* C11 as stated: getCachedTokenInfo returns none for every address as long
\* as no getTokenInfo resolution of that address has completed.
C11_NoneBeforeResolution ==
  (cachedLookup.made /\ ~cachedLookup.completed) => cachedLookup.result = NoToken

\* C11 amended: getCachedTokenInfo performs no external read and changes
\* nothing; for an address that is not a well-known token it returns none as
\* long as no resolution of that address has completed, and for a well-known
\* token it returns the entry the constructor loaded.
C11_CachedLookupIsPure ==
  /\ [](cachedLookup.made =>
         IF IsWellKnown(cachedLookup.address)
         THEN cachedLookup.result = SeededTokenCache[ToLowerCase(cachedLookup.address)]
         ELSE ~cachedLookup.completed => cachedLookup.result = NoToken)
  /\ [][cachedLookup' # cachedLookup =>
          UNCHANGED <<tokenCache, tokenCalls, resolutions>>]_vars

\* C11 witness: while a resolution of an unknown address is awaiting its
\* reads, getCachedTokenInfo of that address returned none.
C11_Witness ==
  /\ cachedLookup.made
  /\ ~IsWellKnown(cachedLookup.address)
  /\ cachedLookup.result = NoToken
  /\ \E c \in 1..Len(tokenCalls) :
       /\ tokenCalls[c].state = "awaiting"
       /\ ToLowerCase(tokenCalls[c].address) = ToLowerCase(cachedLookup.address)

\* Call c resolved the address externally and returned none.
FailedResolution(c) ==
  /\ tokenCalls[c].state = "done"
  /\ tokenCalls[c].resolved
  /\ tokenCalls[c].result = NoToken

\* No call for the token of call c made after c and before d returned a token.
NoneSucceededBetween(c, d) ==
  \A e \in (c + 1)..(d - 1) : SameToken(c, e) => tokenCalls[e].result = NoToken

\* C27: a getTokenInfo resolution that reads neither a non-empty name nor a
\* non-empty symbol returns none and stores nothing in the token cache; a
\* call that returned none left no entry, so that the next getTokenInfo for
\* the same address resolves it externally again.
C27_NegativeNotCached ==
  /\ [][\A c \in 1..Len(tokenCalls) :
          /\ (\E decimals \in DecimalsReads : GetTokenInfoFinish(c, "", "", decimals)) =>
               (tokenCalls'[c].result = NoToken /\ tokenCache' = tokenCache)
          /\ (tokenCalls[c].state = "awaiting" /\ tokenCalls'[c].state = "done"
              /\ tokenCalls'[c].result = NoToken) => tokenCache' = tokenCache]_vars
  /\ [](\A c \in 1..Len(tokenCalls) :
          FailedResolution(c) =>
            /\ NoneSucceededBetween(c, Len(tokenCalls) + 1) =>
                 CacheKey(tokenCalls[c].address) \notin DOMAIN tokenCache
            /\ \A d \in (c + 1)..Len(tokenCalls) :
                 (SameToken(c, d) /\ NoneSucceededBetween(c, d)) => tokenCalls[d].resolved)

\* C27 witness: a call whose reads all failed returned none, and the next
\* call for the same address resolved it again and returned a token.
C27_Witness ==
  \E p \in CallPairs :
    /\ p[2] = p[1] + 1
    /\ FailedResolution(p[1])
    /\ tokenCalls[p[2]].resolved
    /\ tokenCalls[p[2]].result # NoToken
    /\ CacheKey(tokenCalls[p[2]].address) \in DOMAIN tokenCache

\* C28: a token-cache entry is immutable once cached: no step changes or
\* removes the entry stored under a key, the completion of a second
\* getTokenInfo for the same address that started before the first one
\* completed, and read other values, included.
C28_CacheEntryImmutable ==
  [][\A key \in DOMAIN tokenCache :
       key \in DOMAIN tokenCache' /\ tokenCache'[key] = tokenCache[key]]_vars

(***************************************************************************)
(* Properties of the protocol detector (SpecDefi)                          *)
(***************************************************************************)
\* The calls of a tree in pre-order.
RECURSIVE CallsOf(_)
CallsOf(call) ==
  <<call>> \o Flatten([i \in 1..Len(call.subcalls) |-> CallsOf(call.subcalls[i])])

AnalysedCalls == CallsOf(defiTrace.rootCall)
Analysed == defiAnalyses > 0

InContractTable(call) == ToLowerCase(call.to) \in DOMAIN ContractSignatures
InFunctionTable(call) ==
  call.decodedFunction.has /\ call.decodedFunction.name \in DOMAIN FunctionSignatures

\* The interactions built for calls to the address of the call with its
\* function name.
InteractionsFor(call) ==
  { i \in 1..Len(defiAnalysis.interactions) :
      /\ defiAnalysis.interactions[i].contractAddress = call.to
      /\ defiAnalysis.interactions[i].functionName = call.decodedFunction.name }

\* C12: for a call whose target, compared case-insensitively, is in the
\* ContractSignature table and whose decoded function name is in the
\* FunctionSignature table, the address match wins: the detection and every
\* interaction built for the call carry confidence 0.9 (90 hundredths), not
\* the confidence stored with the function.
C12_AddressMatchWins ==
  Analysed =>
    \A c \in 1..Len(AnalysedCalls) :
      (InContractTable(AnalysedCalls[c]) /\ InFunctionTable(AnalysedCalls[c])) =>
        /\ DetectProtocolFromCall(AnalysedCalls[c]).found
        /\ DetectProtocolFromCall(AnalysedCalls[c]).confidence = AddressConfidence
        /\ DetectProtocolFromCall(AnalysedCalls[c]).evidence = "address"
        /\ \A i \in InteractionsFor(AnalysedCalls[c]) :
             defiAnalysis.interactions[i].confidence = AddressConfidence

\* A successful call to the router, written in mixed case, of a swap function
\* whose stored confidence is 0.95, with its interaction at 0.9.
C12_Witness ==
  /\ Analysed
  /\ defiTrace.rootCall.to = Router
  /\ defiTrace.rootCall.to # ToLowerCase(Router)
  /\ defiTrace.rootCall.success
  /\ InFunctionTable(defiTrace.rootCall)
  /\ FunctionSignatures[defiTrace.rootCall.decodedFunction.name].confidence = SwapConfidence
  /\ InteractionsFor(defiTrace.rootCall) # {}
  /\ \A i \in InteractionsFor(defiTrace.rootCall) :
       defiAnalysis.interactions[i].confidence = AddressConfidence

\* The calls for which the detector builds an interaction: detected, decoded
\* and successful.
Interacting(call) ==
  (InContractTable(call) \/ InFunctionTable(call))
  /\ call.decodedFunction.has /\ call.success

\* The body of extractSwapDetails throws for the call.
ExtractionThrows(call) ==
  /\ call.decodedFunction.has
  /\ ExtractSwapDetailsBody(call, defiService, SeededTokenCache,
                            [name |-> "", symbol |-> "", decimals |-> 18]).threw

InteractingCalls == SelectSeq(AnalysedCalls, Interacting)

\* C13: analyzeTrace never propagates an exception: for every trace, those in
\* which the extraction of the swap details throws for some call included, it
\* returns a DefiAnalysis, and every call of the tree is still analysed: the
\* interactions are those of the detected, decoded, successful calls, in
\* pre-order, the calls whose extraction threw among them.
C13_NeverThrows ==
  Analysed =>
    /\ defiAnalysis.returned
    /\ defiAnalysis.summary # "DeFi analysis unavailable due to error"
    /\ Len(defiAnalysis.interactions) = Len(InteractingCalls)
    /\ \A i \in 1..Len(InteractingCalls) :
         /\ defiAnalysis.interactions[i].contractAddress = InteractingCalls[i].to
         /\ defiAnalysis.interactions[i].functionName
              = InteractingCalls[i].decodedFunction.name

\* The extraction threw for one call (a path with an element that is not a
\* string) and an interaction was built for a later call.
C13_Witness ==
  /\ Analysed
  /\ defiAnalysis.returned
  /\ \E i, j \in 1..Len(InteractingCalls) :
       /\ i < j
       /\ ExtractionThrows(InteractingCalls[i])
       /\ ~ExtractionThrows(InteractingCalls[j])
       /\ Len(defiAnalysis.interactions) >= j
       /\ defiAnalysis.interactions[j].swapDetails.has
       /\ ~defiAnalysis.interactions[i].swapDetails.has

\* The trace is one successful call to the Uniswap V2 router, decoded as
\* swapExactTokensForTokens with a path of two addresses.
SingleRouterSwap ==
  /\ defiTrace.rootCall.subcalls = <<>>
  /\ defiTrace.rootCall.success
  /\ ToLowerCase(defiTrace.rootCall.to) = "0x7a250d5630b4cf539739df2c5dacb4c659f2488d"
  /\ defiTrace.rootCall.decodedFunction.has
  /\ defiTrace.rootCall.decodedFunction.name = "swapExactTokensForTokens"
  /\ FindValue(defiTrace.rootCall.decodedFunction.inputs, "path").k = "arr"
  /\ Len(FindValue(defiTrace.rootCall.decodedFunction.inputs, "path").v) = 2
  /\ \A e \in 1..2 :
       FindValue(defiTrace.rootCall.decodedFunction.inputs, "path").v[e].k = "str"

\* C14: for a trace whose only call is a successful root call to the known
\* Uniswap V2 router decoded as swapExactTokensForTokens with a two-address
\* path, analyzeTrace returns detected true and exactly one interaction, of
\* type swap, protocol uniswap-v2 and confidence 0.9, with or without a token
\* service.
C14_RouterSwapDetected ==
  (Analysed /\ SingleRouterSwap) =>
    /\ defiAnalysis.returned
    /\ defiAnalysis.detected
    /\ Len(defiAnalysis.interactions) = 1
    /\ defiAnalysis.interactions[1].type = "swap"
    /\ defiAnalysis.interactions[1].protocol = "uniswap-v2"
    /\ defiAnalysis.interactions[1].confidence = 90

\* Such a trace analysed by a detector that has a token service, which
\* resolved the unknown token of the path.
C14_Witness ==
  /\ Analysed
  /\ SingleRouterSwap
  /\ defiService
  /\ Len(defiAnalysis.interactions) = 1
  /\ defiAnalysis.interactions[1].swapDetails.has
  /\ defiAnalysis.interactions[1].swapDetails.tokenIn.symbol = "TKN"

\* C15: in every DefiAnalysis analyzeTrace returns, detected is true exactly
\* when the interactions list is non-empty, and the overall confidence is the
\* arithmetic mean of the interactions' confidences, 0 when there is none.
C15_DetectedAndMean ==
  Analysed =>
    /\ defiAnalysis.detected <=> Len(defiAnalysis.interactions) > 0
    /\ defiAnalysis.confidence.den > 0
    /\ IF Len(defiAnalysis.interactions) = 0
       THEN defiAnalysis.confidence.num = 0
       ELSE defiAnalysis.confidence.num * Len(defiAnalysis.interactions)
              = TotalConfidence(defiAnalysis.interactions) * defiAnalysis.confidence.den

\* Two interactions of different confidences, 0.9 and 0.95: the mean, 0.925,
\* is neither of them.
C15_Witness ==
  /\ Analysed
  /\ Len(defiAnalysis.interactions) = 2
  /\ defiAnalysis.interactions[1].confidence = 95
  /\ defiAnalysis.interactions[2].confidence = 90
  /\ SameQuotient(defiAnalysis.confidence, Quotient(185, 2))

\* C16: for a trace in which no call's target is in the contract table and
\* no call's decoded function name is in the function table, analyzeTrace
\* returns detected false, no interactions, confidence 0 and the summary
\* 'No DeFi protocol interactions detected'.
C16_NothingDetected ==
  (Analysed /\ \A c \in 1..Len(AnalysedCalls) :
                 ~InContractTable(AnalysedCalls[c]) /\ ~InFunctionTable(AnalysedCalls[c])) =>
    /\ defiAnalysis.returned
    /\ ~defiAnalysis.detected
    /\ defiAnalysis.interactions = <<>>
    /\ defiAnalysis.confidence.num = 0
    /\ defiAnalysis.summary = "No DeFi protocol interactions detected"

\* A trace of three calls, two of them decoded, none of them in a table.
C16_Witness ==
  /\ Analysed
  /\ Len(AnalysedCalls) = 3
  /\ \A c \in 1..3 :
       ~InContractTable(AnalysedCalls[c]) /\ ~InFunctionTable(AnalysedCalls[c])
  /\ \E c \in 1..3 : AnalysedCalls[c].decodedFunction.has
  /\ defiAnalysis.summary = "No DeFi protocol interactions detected"

\* The calls the detector attributes to a protocol, in pre-order.
DetectedCalls ==
  SelectSeq(AnalysedCalls, LAMBDA call : InContractTable(call) \/ InFunctionTable(call))

\* C20: for each call detected, by address or by function name, as belonging
\* to Uniswap V2, the analysis holds one DefiInteraction whose success flag
\* equals the call's, the calls that reverted and the calls with no decoded
\* function included: interaction i is that of the i-th detected call.
C20_InteractionPerDetectedCall ==
  Analysed =>
    /\ Len(defiAnalysis.interactions) = Len(DetectedCalls)
    /\ \A i \in 1..Len(DetectedCalls) :
         /\ defiAnalysis.interactions[i].contractAddress = DetectedCalls[i].to
         /\ defiAnalysis.interactions[i].success = DetectedCalls[i].success

\* The positions of the calls of a tree in pre-order: the root, then the
\* subtree of each subcall in order.
RECURSIVE PathsOf(_, _)
PathsOf(call, path) ==
  <<path>> \o Flatten([i \in 1..Len(call.subcalls) |->
                         PathsOf(call.subcalls[i], Append(path, i))])

VisitedPaths == [v \in 1..Len(defiVisits) |-> defiVisits[v].path]

\* C21: analyzeTrace visits every call of the tree exactly once, in
\* pre-order (the root, then the subtree of each subcall in order); a visit
\* pushes at most one interaction; and the interactions list is the pushes
\* of the visits in the order of the visits.
C21_PreOrderWalk ==
  Analysed =>
    /\ VisitedPaths = PathsOf(defiTrace.rootCall, <<>>)
    /\ \A v \in 1..Len(defiVisits) : Len(defiVisits[v].pushed) <= 1
    /\ defiAnalysis.interactions
         = Flatten([v \in 1..Len(defiVisits) |-> defiVisits[v].pushed])

\* A tree with a call at depth 2 in which two calls pushed different
\* interactions and a call visited between them pushed none.
C21_Witness ==
  /\ Analysed
  /\ \E v \in 1..Len(defiVisits) : Len(defiVisits[v].path) = 2
  /\ \E i, j, k \in 1..Len(defiVisits) :
       /\ i < j /\ j < k
       /\ Len(defiVisits[i].pushed) = 1
       /\ Len(defiVisits[j].pushed) = 0
       /\ Len(defiVisits[k].pushed) = 1
       /\ defiVisits[i].pushed # defiVisits[k].pushed
  /\ Len(defiAnalysis.interactions) >= 2

\* The call at a position of the tree.
RECURSIVE CallAt(_, _)
CallAt(call, path) ==
  IF Len(path) = 0 THEN call ELSE CallAt(call.subcalls[path[1]], Tail(path))

VisitedCall(v) == CallAt(defiTrace.rootCall, defiVisits[v].path)

\* The visits that pushed a swap interaction for a call whose decoded path
\* is a list of addresses.
SwapVisits ==
  { v \in 1..Len(defiVisits) :
      /\ Len(defiVisits[v].pushed) = 1
      /\ defiVisits[v].pushed[1].type = "swap"
      /\ SwapPath(VisitedCall(v).decodedFunction).k = "arr"
      /\ \A e \in 1..Len(SwapPath(VisitedCall(v).decodedFunction).v) :
           SwapPath(VisitedCall(v).decodedFunction).v[e].k = "str" }

PathOfVisit(v) == SwapPath(VisitedCall(v).decodedFunction).v
DetailsOfVisit(v) == defiVisits[v].pushed[1].swapDetails

\* C23: for every swap interaction whose decoded path has more than two
\* addresses, with or without a token service, the swap detail has
\* isMultiHop true and a route of one token per path address, in path order.
C23_MultiHopRoute ==
  Analysed =>
    \A v \in SwapVisits :
      Len(PathOfVisit(v)) > 2 =>
        /\ DetailsOfVisit(v).has
        /\ DetailsOfVisit(v).isMultiHop
        /\ Len(DetailsOfVisit(v).route) = Len(PathOfVisit(v))
        /\ \A e \in 1..Len(PathOfVisit(v)) :
             DetailsOfVisit(v).route[e].address = PathOfVisit(v)[e].v

\* tokenIn, tokenOut and the route entries of a swap detail.
TokensOf(details) ==
  {details.tokenIn, details.tokenOut} \cup {details.route[e] : e \in 1..Len(details.route)}

\* C24: in the swap details, tokenIn, tokenOut and every route entry alike,
\* a token at the WETH address has the symbol ETH exactly when the decoded
\* function name contains 'ETH'; under another function name it carries what
\* the resolution of the address gave.
C24_NativeSymbolOnlyForNativeLeg ==
  Analysed =>
    \A v \in SwapVisits :
      DetailsOfVisit(v).has =>
        \A token \in TokensOf(DetailsOfVisit(v)) :
          ToLowerCase(token.address) = ToLowerCase(WETH) =>
            (token.symbol = "ETH"
               <=> Includes(VisitedCall(v).decodedFunction.name, "ETH"))

\* The confidence, in hundredths, an interaction of the call is to carry:
\* 0.9 for a target of the contract table, else 0.95 for a swap function and
\* 0.90 for a liquidity function of the function table.
ExpectedConfidence(call) ==
  IF InContractTable(call) THEN 90
  ELSE IF call.decodedFunction.name \in SwapFunctionNames THEN 95
  ELSE 90

\* C30: every DefiInteraction of an analyzeTrace result comes from a call
\* with success true and a decoded function, has the protocol uniswap-v2,
\* and has confidence 0.9 for an address match or the confidence stored
\* with the matched function, 0.90 or 0.95; so that whenever detected is
\* true the overall confidence is at least 0.9 and at most 0.95, and all
\* interactions share the protocol of the analysis.
C30_InteractionsWellFormed ==
  Analysed =>
    /\ \A v \in 1..Len(defiVisits) :
         \A i \in 1..Len(defiVisits[v].pushed) :
           /\ VisitedCall(v).success
           /\ VisitedCall(v).decodedFunction.has
           /\ defiVisits[v].pushed[i].protocol = "uniswap-v2"
           /\ defiVisits[v].pushed[i].confidence = ExpectedConfidence(VisitedCall(v))
           /\ defiVisits[v].pushed[i].confidence \in {90, 95}
    /\ \A i \in 1..Len(defiAnalysis.interactions) :
         /\ defiAnalysis.interactions[i].protocol = defiAnalysis.protocol
         /\ \E v \in 1..Len(defiVisits) :
              defiVisits[v].pushed = <<defiAnalysis.interactions[i]>>
    /\ defiAnalysis.detected =>
         /\ defiAnalysis.protocol = "uniswap-v2"
         /\ 90 * defiAnalysis.confidence.den <= defiAnalysis.confidence.num
         /\ defiAnalysis.confidence.num <= 95 * defiAnalysis.confidence.den

\* Three interactions: one by function name at 0.95, for a call whose target
\* is in no table, one by address, and one by the name of a liquidity
\* function at 0.90; the overall confidence lies strictly between 0.9 and 0.95.
C30_Witness ==
  /\ Analysed
  /\ defiAnalysis.detected
  /\ Len(defiAnalysis.interactions) = 3
  /\ \E u, v, w \in 1..Len(defiVisits) :
       /\ Len(defiVisits[u].pushed) = 1 /\ Len(defiVisits[v].pushed) = 1
       /\ Len(defiVisits[w].pushed) = 1
       /\ ~InContractTable(VisitedCall(u)) /\ defiVisits[u].pushed[1].confidence = 95
       /\ InContractTable(VisitedCall(v)) /\ defiVisits[v].pushed[1].confidence = 90
       /\ ~InContractTable(VisitedCall(w)) /\ defiVisits[w].pushed[1].confidence = 90
  /\ 90 * defiAnalysis.confidence.den < defiAnalysis.confidence.num
  /\ defiAnalysis.confidence.num < 95 * defiAnalysis.confidence.den

(***************************************************************************)
(* Properties of the formatter (SpecFormat)                                *)
(***************************************************************************)
IntegerTyped(type) == TypeStartsWith(type, "uint") \/ TypeStartsWith(type, "int")
Formatted == fmtOutput # NoRendering

\* C17: an integer-typed parameter whose decimal string is that of
\* 2^256 - 1 (the word of 32 bytes 0xff) is rendered as the 'unlimited'
\* marker, not as a number, whatever the contract and the token service.
C17_MaxUintIsUnlimited ==
  (Formatted /\ IntegerTyped(fmtInput.type)
     /\ ValueToString(fmtInput.value) = BigIntToString(MaxWord)) =>
    fmtOutput = Unlimited

\* 2^256 - 1 as a uint256 parameter of a contract whose token is cached,
\* formatted with a token service: the marker, not an amount of the token.
C17_Witness ==
  /\ Formatted
  /\ fmtInput.type = "uint256"
  /\ ValueToString(fmtInput.value) = BigIntToString(MaxWord)
  /\ Len(ValueToString(fmtInput.value)) = 78
  /\ fmtService
  /\ CachedEntry(tokenCache, fmtContract) # NoToken
  /\ fmtOutput = Unlimited

(***************************************************************************)
(* Properties of inspectCommand (SpecInspect)                              *)
(***************************************************************************)
\* The positions in inspectEvents of the lines that carry the parsed trace.
ParsedTraceLines ==
  { i \in 1..Len(inspectEvents) :
      inspectEvents[i] \in {"parsed trace: json", "parsed trace: formatted"} }
EventBefore(event, i) == \E j \in 1..(i - 1) : inspectEvents[j] = event
Wrote(event) == \E j \in 1..Len(inspectEvents) : inspectEvents[j] = event
\* A call of the run threw: the catch wrote its first line.
Caught == Wrote("error: message") \/ Wrote("error: unexpected")

RECURSIVE Mirrors(_, _)
Mirrors(parsed, raw) ==
  /\ parsed.to = raw.to
  /\ parsed.type = GetCallType(raw)
  /\ parsed.success = ParseCallResult(raw).success
  /\ Len(parsed.subcalls) = Len(raw.calls)
  /\ \A i \in 1..Len(raw.calls) : Mirrors(parsed.subcalls[i], raw.calls[i])

\* The number of raw calls in and beneath the calls of a list, and the
\* number of parsed calls of a tree.
RECURSIVE RawCallCount(_)
RawCallCount(calls) ==
  IF Len(calls) = 0 THEN 0
  ELSE 1 + RawCallCount(calls[1].calls) + RawCallCount(Tail(calls))
RECURSIVE ParsedCallCount(_)
ParsedCallCount(call) ==
  1 + SumSeq([i \in 1..Len(call.subcalls) |-> ParsedCallCount(call.subcalls[i])])

\* C19: the built call tree mirrors the normalized raw call list: every raw
\* call of the list and every raw call nested beneath it yields exactly one
\* ParsedCall, siblings in the order of the source trace, whichever calls
\* fail to decode.
C19_TreeMirrorsRawList ==
  parsedTrace.has =>
    /\ Mirrors(parsedTrace.rootCall, rawTrace.calls[1])
    /\ ParsedCallCount(parsedTrace.rootCall) = RawCallCount(rawTrace.calls)

\* The spellings, among the type strings of the traces, of each call kind.
KindSpellings ==
  [call |-> {"call", "CALL"}, staticcall |-> {"STATICCALL"},
   delegatecall |-> {"DELEGATECALL", "DelegateCall"}, create |-> {"CREATE"},
   create2 |-> {"CREATE2"}]

\* The kind a type string stands for: the kind it spells in any case, and
\* call for a missing type and for any other string.
KindOf(type) ==
  IF \E kind \in DOMAIN KindSpellings : type \in KindSpellings[kind]
  THEN CHOOSE kind \in DOMAIN KindSpellings : type \in KindSpellings[kind]
  ELSE "call"

RECURSIVE KindsClassified(_, _)
KindsClassified(parsed, raw) ==
  /\ parsed.type \in DOMAIN KindSpellings
  /\ parsed.type = KindOf(raw.type)
  /\ Len(parsed.subcalls) = Len(raw.calls)
  /\ \A i \in 1..Len(raw.calls) : KindsClassified(parsed.subcalls[i], raw.calls[i])

\* C25: for every raw type string parseCall sets the type of the parsed
\* call to one of call, staticcall, delegatecall, create and create2, the
\* one the string spells in any case, and to call for a missing type and
\* for any other string; parseTrace fails on no trace because of a type:
\* it fails only on a trace without calls.
C25_TypeClassified ==
  /\ parsePc = "failed" => (~rawTrace.hasCalls \/ rawTrace.calls = <<>>)
  /\ parsePc \in {"parsed", "logged"} =>
       /\ parsedTrace.has
       /\ KindsClassified(parsedTrace.rootCall, rawTrace.calls[1])

\* A parsed tree whose root was typed DelegateCall in the trace and whose
\* subcall had the type SELFDESTRUCT.
C25_Witness ==
  /\ parsePc = "parsed"
  /\ rawTrace.calls[1].type = "DelegateCall"
  /\ parsedTrace.rootCall.type = "delegatecall"
  /\ Len(parsedTrace.rootCall.subcalls) = 1
  /\ rawTrace.calls[1].calls[1].type = "SELFDESTRUCT"
  /\ parsedTrace.rootCall.subcalls[1].type = "call"

\* A parsed call whose type was missing in the trace.
C25_WitnessMissing ==
  /\ parsePc = "parsed"
  /\ rawTrace.calls[1].type = Absent
  /\ parsedTrace.rootCall.type = "call"

\* The events parseLogs pushed: those of the root call behind the ones it
\* had before.
PushedEvents(before, after) ==
  SubSeq(after.rootCall.events, Len(before.rootCall.events) + 1, Len(after.rootCall.events))

\* C26: parseLogs over a receipt of n logs appends exactly n ParsedEvents to
\* the event list of the root call, in log order, the i-th (counted from 0)
\* with logIndex i and the address, topics and data of its log, whether or
\* not the log was decoded; the event lists of the other calls and every
\* other field of the parsed trace are as they were.
C26_LogsAppendedToRoot ==
  [][(parsePc = "parsed" /\ parsePc' = "logged") =>
       /\ Len(parsedTrace'.rootCall.events)
            = Len(parsedTrace.rootCall.events) + Len(receiptLogs')
       /\ SubSeq(parsedTrace'.rootCall.events, 1, Len(parsedTrace.rootCall.events))
            = parsedTrace.rootCall.events
       /\ \A i \in 1..Len(receiptLogs') :
            /\ PushedEvents(parsedTrace, parsedTrace')[i].logIndex = i - 1
            /\ PushedEvents(parsedTrace, parsedTrace')[i].address = receiptLogs'[i].address
            /\ PushedEvents(parsedTrace, parsedTrace')[i].rawTopics = receiptLogs'[i].topics
            /\ PushedEvents(parsedTrace, parsedTrace')[i].rawData = receiptLogs'[i].data
       /\ [parsedTrace' EXCEPT !.rootCall.events = parsedTrace.rootCall.events]
            = parsedTrace]_vars

\* parseLogs ran over two logs on a tree with a subcall: one log was
\* decoded, the other was not, and both are on the root call.
C26_Witness ==
  /\ parsePc = "logged"
  /\ Len(receiptLogs) = 2
  /\ Len(parsedTrace.rootCall.subcalls) > 0
  /\ Len(parsedTrace.rootCall.events) = 2
  /\ parsedTrace.rootCall.events[1].decodedEvent = NoDecode
  /\ parsedTrace.rootCall.events[2].decodedEvent # NoDecode
  /\ parsedTrace.rootCall.events[2].logIndex = 1
  /\ parsedTrace.rootCall.subcalls[1].events = <<>>

====
